---- MODULE Spec2Model ----
(***************************************************************************)
(* Model of the capture pipeline of app-screenshot-tester:                 *)
(*   src/core/capturer.ts  (ScreenshotCapturer)                            *)
(*   src/core/detector.ts  (loading-completion strategies)                 *)
(*   src/core/browser.ts   (BrowserController)                             *)
(*   src/core/analyzer.ts  (VisualAnalyzer)                                *)
(*   src/cli/commands/capture.ts  (captureCommand)                         *)
(*                                                                         *)
(* The program runs on a single-threaded event loop.  Every action below   *)
(* is one macrotask (an I/O completion, a timer or a page event) together  *)
(* with all the promise continuations it makes runnable, up to the next    *)
(* await of every task involved.                                           *)
(*                                                                         *)
(* Time is counted in ticks of TickMs milliseconds.  Timers fire at their  *)
(* due tick (the clock does not advance past a due timer); I/O requests    *)
(* complete after an arbitrary delay.                                      *)
(***************************************************************************)
EXTENDS Integers, Sequences, FiniteSets

VARIABLES
    config,              \* CaptureConfig: duration, interval (ticks), waitFor
    now,                 \* Date.now(), in ticks
    startTime,           \* this.startTime (0 until navigation has completed)
    main,                \* captureSequence: position and takeScreenshot locals
    sampler,             \* captureAtIntervals: position and takeScreenshot locals
    errs,                \* captureErrorScreenshot invocations awaiting their screenshot
    errCount,            \* number of pageerror / crash events so far
    handlersOn,          \* page.on('pageerror') / page.on('crash') registered
    pageOpen,            \* BrowserController.page # null
    closeCalls,          \* number of invocations of BrowserController.close
    screenshots,         \* this.screenshots
    keyFrameIndices,     \* this.keyFrameIndices
    previousAnalysis,    \* this.previousAnalysis
    performanceMetrics,  \* this.performanceMetrics (timestamp of each reading)
    loadingComplete,     \* this.loadingComplete
    loadingCompleteTime, \* this.loadingCompleteTime
    strat,               \* state of each strategy of the composite detector
    detect,              \* CompositeStrategy.detect: start, result, resolution time
    deadline,            \* the setTimeout(duration) of the race in captureSequence
    manifest,            \* the manifest handed to saveManifest
    manifestSaved,       \* saveManifest has succeeded
    faults,              \* number of faults the environment has raised so far
    undetected,          \* this.loadingComplete was false when the deadline fired
    cli,                 \* captureCommand: position and the options it was given
    call                 \* a comparator, analyzer or strategy call: arguments and result

vars == <<config, now, startTime, main, sampler, errs, errCount, handlersOn, pageOpen,
          closeCalls, screenshots, keyFrameIndices, previousAnalysis,
          performanceMetrics, loadingComplete, loadingCompleteTime, strat,
          detect, deadline, manifest, manifestSaved, faults, undetected, cli,
          call>>

captureVars == <<startTime, main, sampler, errs, errCount,
                 handlersOn, pageOpen,
                 closeCalls, screenshots, keyFrameIndices, previousAnalysis,
                 performanceMetrics, loadingComplete, loadingCompleteTime,
                 deadline, manifest, manifestSaved, faults, undetected>>

----------------------------------------------------------------------------
(* Bounds of the model *)

MaxDuration == 2         \* largest config.duration of a capture session, in ticks
MaxInitDelay == 0        \* most ticks that pass while the initial sample is taken
MaxErrors == 1           \* most pageerror / crash events per session
MaxFaults == 1           \* most faults the environment raises per session
MaxDetectDuration == 6   \* largest config.duration given to a stand-alone detector
ClockAtLaunch == 3       \* Date.now() when captureSequence is called, in ticks
FullPageDuration == 1    \* config.duration of the sessions with a full-page flag

(* Program constants *)

TickMs == 1000                 \* milliseconds per tick
Interval == 1                  \* config.interval of the session, in ticks
NetworkIdleTimeout == 2        \* NetworkIdleStrategy default timeout 2000 ms
ElementTimeout == 5            \* ElementPresentStrategy default timeout 5000 ms
DefaultDuration == 10          \* config.duration || 10000

MaxElapsed == MaxInitDelay + MaxDuration + Interval - 1
DetectMaxElapsed == MaxDetectDuration + 1

----------------------------------------------------------------------------
(* Strings are sequences of character codes *)

Char0 == 48
CharDash == 45
StrMs == <<109, 115>>                     \* "ms"
StrPng == <<46, 112, 110, 103>>           \* ".png"
StrError == <<45, 69, 82, 82, 79, 82>>    \* "-ERROR"

RECURSIVE StringOf(_)
StringOf(n) ==
    IF n < 10 THEN <<Char0 + n>>
    ELSE StringOf(n \div 10) \o <<Char0 + (n % 10)>>

RECURSIVE PadStart(_, _, _)
PadStart(s, len, c) ==
    IF Len(s) >= len THEN s ELSE PadStart(<<c>> \o s, len, c)

\* `${String(index).padStart(3, '0')}-${timestamp}ms.png`
ShotFilename(index, timestamp) ==
    PadStart(StringOf(index), 3, Char0) \o <<CharDash>> \o StringOf(timestamp)
        \o StrMs \o StrPng

\* `${String(index).padStart(3, '0')}-${timestamp}ms-ERROR.png`
ErrorFilename(index, timestamp) ==
    PadStart(StringOf(index), 3, Char0) \o <<CharDash>> \o StringOf(timestamp)
        \o StrMs \o StrError \o StrPng

\* the number written before the first '-' of a filename
RECURSIVE ParseDigits(_, _, _)
ParseDigits(s, i, acc) ==
    IF i > Len(s) \/ s[i] = CharDash THEN acc
    ELSE ParseDigits(s, i + 1, acc * 10 + (s[i] - Char0))

FilenameIndex(filename) == ParseDigits(filename, 1, 0)

\* a < b in the order of Array.prototype.sort() without comparator
RECURSIVE StrLess(_, _)
StrLess(a, b) ==
    IF b = <<>> THEN FALSE
    ELSE IF a = <<>> THEN TRUE
    ELSE IF Head(a) # Head(b) THEN Head(a) < Head(b)
    ELSE StrLess(Tail(a), Tail(b))

RECURSIVE InsertSorted(_, _)
InsertSorted(x, s) ==
    IF s = <<>> THEN <<x>>
    ELSE IF StrLess(x, Head(s)) THEN <<x>> \o s
    ELSE <<Head(s)>> \o InsertSorted(x, Tail(s))

RECURSIVE SortStrings(_)
SortStrings(s) ==
    IF s = <<>> THEN <<>>
    ELSE InsertSorted(Head(s), SortStrings(Tail(s)))

----------------------------------------------------------------------------
(* VisualAnalyzer *)

Min(a, b) == IF a < b THEN a ELSE b

\* matrix[i][j] of levenshteinDistance: distance of the first i characters
\* of str2 and the first j characters of str1
RECURSIVE LevCell(_, _, _, _)
LevCell(str1, str2, i, j) ==
    IF i = 0 THEN j
    ELSE IF j = 0 THEN i
    ELSE IF str2[i] = str1[j] THEN LevCell(str1, str2, i - 1, j - 1)
    ELSE Min(LevCell(str1, str2, i - 1, j - 1) + 1,
             Min(LevCell(str1, str2, i, j - 1) + 1,
                 LevCell(str1, str2, i - 1, j) + 1))

levenshteinDistance(str1, str2) == LevCell(str1, str2, Len(str2), Len(str1))

calculateTextSimilarityOfFirst(text1, text2) ==
    IF text1 = text2 THEN <<1, 1>>
    ELSE IF text1 = <<>> \/ text2 = <<>> THEN <<0, 1>>
    ELSE <<Len(text1) - levenshteinDistance(text1, text2), Len(text1)>>

\* calculateTextSimilarity, as the pair <<numerator, denominator>> of the
\* fraction whose value times 100 the code returns
calculateTextSimilarity(text1, text2) ==
    IF text1 = text2 THEN <<1, 1>>
    ELSE IF text1 = <<>> \/ text2 = <<>> THEN <<0, 1>>
    ELSE LET longer == IF Len(text1) > Len(text2) THEN text1 ELSE text2
             shorter == IF Len(text1) > Len(text2) THEN text2 ELSE text1
         IN <<Len(longer) - levenshteinDistance(longer, shorter), Len(longer)>>

Abs(x) == IF x < 0 THEN -x ELSE x

hasSignificantChangeFrom20(previous, current) ==
    LET elementChange == Abs(current.elementCount - previous.elementCount)
        sim == calculateTextSimilarity(previous.textContent, current.textContent)
    IN \/ previous.isBlank /\ ~current.isBlank
       \/ ~previous.isBlank /\ current.isBlank
       \/ IF previous.elementCount > 0
            THEN elementChange * 100 >= 20 * previous.elementCount
            ELSE TRUE
       \/ previous.loadingIndicators > 0 /\ current.loadingIndicators = 0
       \/ previous.loadingIndicators = 0 /\ current.loadingIndicators > 0
       \/ ~previous.hasErrors /\ current.hasErrors
       \/ (sim[2] - sim[1]) * 100 > 30 * sim[2]

\* compareAnalyses(previous, current).hasSignificantChange
hasSignificantChange(previous, current) ==
    LET elementChange == Abs(current.elementCount - previous.elementCount)
        sim == calculateTextSimilarity(previous.textContent, current.textContent)
    IN \/ previous.isBlank /\ ~current.isBlank
       \/ ~previous.isBlank /\ current.isBlank
       \/ IF previous.elementCount > 0
            THEN elementChange * 100 > 20 * previous.elementCount
            ELSE TRUE
       \/ previous.loadingIndicators > 0 /\ current.loadingIndicators = 0
       \/ previous.loadingIndicators = 0 /\ current.loadingIndicators > 0
       \/ ~previous.hasErrors /\ current.hasErrors
       \* changePercentage = 100 - similarity > 30
       \/ (sim[2] - sim[1]) * 100 > 30 * sim[2]

\* the record page.evaluate computes in analyzePage from the document:
\* its trimmed text, its element count, the texts of its error elements plus
\* the captured console errors, and the loading indicators found
AnalyzeDocument(text, elements, errors, indicators) ==
    [hasContent |-> Len(text) > 0,
     isBlank |-> ~(Len(text) > 0) \/ elements < 10,
     textContent |-> text,
     elementCount |-> elements,
     hasErrors |-> errors > 0,
     errorMessages |-> [i \in 1..errors |-> "error"],
     loadingIndicators |-> indicators]

\* the result of analyzePage when page.evaluate throws
FallbackAnalysis ==
    [hasContent |-> FALSE, isBlank |-> TRUE, textContent |-> <<>>,
     elementCount |-> 0, hasErrors |-> TRUE,
     errorMessages |-> <<"Failed to analyze page">>, loadingIndicators |-> 0]

\* the documents a sample may see: a spinner-only page and the loaded page
SpinnerPage == AnalyzeDocument(<<>>, 5, 0, 1)
LoadedPage == AnalyzeDocument(<<79, 75>>, 50, 0, 0)

\* every result analyzePage may resolve with
AnalysisResults == {SpinnerPage, LoadedPage, FallbackAnalysis}

\* browser.screenshot rejected
Rejected == [rejected |-> TRUE]

\* the outcomes of `await browser.screenshot; await analyzer.analyzePage`
SampleOutcomes == AnalysisResults \cup {Rejected}

NoAnalysis == [none |-> TRUE]     \* previousAnalysis = null

----------------------------------------------------------------------------
(* Loading detector *)

StrategyNames == {"elementPresent", "networkIdle", "timeout"}

\* LoadingDetector.createFromConfig: the strategies of the composite, each
\* started by CompositeStrategy.detect ("absent": not part of the composite)
createFromConfig(cfg) ==
    [elementPresent |-> IF cfg.waitFor THEN "pending" ELSE "absent",
     networkIdle |-> "pending",
     timeout |-> "pending"]

\* new TimeoutStrategy(config.duration || 10000)
TimeoutDuration(cfg) == IF cfg.duration = 0 THEN DefaultDuration ELSE cfg.duration

\* the tick at which the wait of a strategy started at `start` ends
StrategyDue(s, start) ==
    CASE s = "networkIdle" -> start + NetworkIdleTimeout
      [] s = "elementPresent" -> start + ElementTimeout
      [] s = "timeout" -> start + TimeoutDuration(config)

\* a strategy may resolve with r now: the waits of NetworkIdleStrategy and
\* ElementPresentStrategy succeed at any moment before their timeout and
\* throw (resolve false) at it; TimeoutStrategy resolves true at its timer
CanSettle(s, r) ==
    /\ strat[s] = "pending"
    /\ \/ s # "timeout" /\ r = "true"
       \/ s # "timeout" /\ r = "false" /\ StrategyDue(s, detect.start) <= now
       \/ s = "timeout" /\ r = "true" /\ StrategyDue(s, detect.start) <= now

\* CompositeStrategy.detect: `await Promise.all(strategies.map(detect))` has
\* resolved when no strategy is pending
CompositeSettled(st) == \A s \in StrategyNames : st[s] # "pending"

\* results.some(result => result)
CompositeResult(st) ==
    IF \E s \in StrategyNames : st[s] = "true" THEN "true" ELSE "false"

\* one strategy resolves; CompositeStrategy.detect resolves with it when it
\* was the last one pending
DetectorStep(s, r) ==
    /\ CanSettle(s, r)
    /\ strat' = [strat EXCEPT ![s] = r]
    /\ detect' = IF CompositeSettled(strat')
                   THEN [detect EXCEPT !.state = CompositeResult(strat'), !.at = now]
                   ELSE detect

----------------------------------------------------------------------------
(* ScreenshotCapturer *)

NoManifest == [none |-> TRUE]

Elapsed == now - startTime        \* Date.now() - this.startTime

\* a key-frame check that flags every sample
KeyFramesAlways(index, analysis) == keyFrameIndices \cup {index}

\* keyFrameIndices after the key-frame check of takeScreenshot
KeyFramesAfter(index, analysis) ==
    IF previousAnalysis # NoAnalysis
      THEN IF hasSignificantChange(previousAnalysis, analysis)
             THEN keyFrameIndices \cup {index}
             ELSE keyFrameIndices
      ELSE keyFrameIndices \cup {index}

\* takeScreenshot from the key-frame check to this.screenshots.push
AppendSample(index, timestamp, phase, analysis) ==
    /\ keyFrameIndices' = KeyFramesAfter(index, analysis)
    /\ previousAnalysis' = analysis
    /\ screenshots' = Append(screenshots,
          [filename |-> ShotFilename(index, timestamp * TickMs),
           timestamp |-> timestamp,
           phase |-> phase,
           blankScreen |-> analysis.isBlank,
           hasErrors |-> analysis.hasErrors,
           errorMessages |-> analysis.errorMessages,
           isKeyFrame |-> index \in KeyFramesAfter(index, analysis)])

\* `${errorType}: ${errorMessage}`
ErrorText(errorType, errorMessage) == errorType \o ": " \o errorMessage

\* an error record that carries the bare message and no key-frame flag
ErrorSampleUntyped(index, timestamp, errorType, errorMessage) ==
    [filename |-> ErrorFilename(index, timestamp * TickMs),
     timestamp |-> timestamp,
     phase |-> "loading",
     blankScreen |-> FALSE,
     hasErrors |-> TRUE,
     errorMessages |-> <<errorMessage>>,
     isKeyFrame |-> FALSE]

\* the screenshot record pushed by captureErrorScreenshot
ErrorSample(index, timestamp, errorType, errorMessage) ==
    [filename |-> ErrorFilename(index, timestamp * TickMs),
     timestamp |-> timestamp,
     phase |-> "loading",
     blankScreen |-> FALSE,
     hasErrors |-> TRUE,
     errorMessages |-> <<ErrorText(errorType, errorMessage)>>,
     isKeyFrame |-> TRUE]

RECURSIVE SetToSeq(_)
SetToSeq(S) ==
    IF S = {} THEN <<>>
    ELSE LET x == CHOOSE y \in S : \A z \in S : y <= z
         IN <<x>> \o SetToSeq(S \ {x})

\* identifyKeyFrames (indices are zero-based, sequences one-based)
identifyKeyFrames(shots, kfi) ==
    LET present == SetToSeq({i \in kfi : i < Len(shots)})
        detected == [k \in 1..Len(present) |-> shots[present[k] + 1].filename]
        lastIndex == Len(shots) - 1
        keyFrames == IF lastIndex >= 0 /\ lastIndex \notin kfi
                       THEN Append(detected, shots[lastIndex + 1].filename)
                       ELSE detected
    IN SortStrings(keyFrames)

\* detectIssues
detectIssues(shots) ==
    [blankAtEnd |-> Len(shots) > 0 /\ shots[Len(shots)].blankScreen,
     loadingTimeout |-> ~loadingComplete,
     errorScreenshots |-> Cardinality({i \in 1..Len(shots) : shots[i].hasErrors})]

\* generateManifest
generateManifest ==
    [screenshots |-> screenshots,
     keyFrames |-> identifyKeyFrames(screenshots, keyFrameIndices),
     loadingDuration |-> IF loadingCompleteTime # 0 THEN loadingCompleteTime
                         ELSE config.duration,
     issues |-> detectIssues(screenshots)]

\* the object generateManifest returned, as it reads now: its screenshots
\* field is the array this.screenshots itself, its other fields hold what was
\* computed at generation.  The variable manifest keeps what the object read
\* when it was generated, which is what saveManifest serialises in that turn.
ManifestObject ==
    IF manifest = NoManifest THEN NoManifest
    ELSE [manifest EXCEPT !.screenshots = screenshots]

\* a catch block that rethrows without closing the browser
CatchFaultNoClose(m) ==
    /\ closeCalls' = closeCalls
    /\ main' = [m EXCEPT !.pc = "closing", !.fault = TRUE]

\* the catch block of captureSequence: `await this.browser.close()`, then
\* rethrow once close has returned
CatchFault(m) ==
    /\ closeCalls' = closeCalls + 1
    /\ main' = [m EXCEPT !.pc = "closing", !.fault = TRUE]

\* `await this.browser.close()` after saveManifest
CloseAfterSave(m) ==
    /\ closeCalls' = closeCalls + 1
    /\ main' = [m EXCEPT !.pc = "closing", !.fault = FALSE]

\* a race of the two promises instead of Promise.all
PromiseAnyResolved(detectState, samplerPc) ==
    detectState \in {"true", "false"} \/ samplerPc = "done"

\* Promise.all([detectionPromise, intervalPromise]) has resolved
PromiseAllResolved(detectState, samplerPc) ==
    detectState \in {"true", "false"} /\ samplerPc = "done"

\* captureSequence after the race: finalTime, takeScreenshot('final', finalTime)
\* up to `await this.browser.screenshot`
BeginFinal ==
    [pc |-> "shot", phase |-> "final", index |-> Len(screenshots),
     timestamp |-> Elapsed, fault |-> FALSE]

\* the loop condition of captureAtIntervals, then the sleep or the return
SamplerLoop(complete) ==
    IF ~complete /\ Elapsed < config.duration
      THEN [pc |-> "sleep", index |-> 0, timestamp |-> 0, due |-> now + config.interval]
      ELSE [pc |-> "done", index |-> 0, timestamp |-> 0, due |-> 0]

\* captureSequence resumes after `await Promise.race([Promise.all(..), timer])`
\* when it is still waiting there and the Promise.all has resolved
RaceResume(detectState, samplerPc) ==
    IF main.pc = "race" /\ PromiseAllResolved(detectState, samplerPc)
      THEN BeginFinal
      ELSE main

IdleMain == [pc |-> "idle", phase |-> "none", index |-> 0, timestamp |-> 0,
             fault |-> FALSE]
IdleTask == [pc |-> "idle", index |-> 0, timestamp |-> 0, due |-> 0]

\* the capturer was constructed directly, not by captureCommand
NoCli == [pc |-> "none"]

\* no comparator, analyzer or strategy call is under way
NoCall == [pc |-> "none"]

CaptureInit ==
    /\ now = ClockAtLaunch
    /\ startTime = 0
    /\ main = IdleMain
    /\ sampler = IdleTask
    /\ errs = <<>>
    /\ errCount = 0
    /\ handlersOn = FALSE
    /\ pageOpen = FALSE
    /\ closeCalls = 0
    /\ screenshots = <<>>
    /\ keyFrameIndices = {}
    /\ previousAnalysis = NoAnalysis
    /\ performanceMetrics = <<>>
    /\ loadingComplete = FALSE
    /\ loadingCompleteTime = 0
    /\ deadline = "unset"
    /\ manifest = NoManifest
    /\ manifestSaved = FALSE
    /\ faults = 0
    /\ undetected = FALSE

\* new ScreenshotCapturer(config)
Init ==
    /\ config \in [duration : 1..MaxDuration, interval : {Interval},
                   waitFor : {FALSE}]
    /\ CaptureInit
    /\ strat = [s \in StrategyNames |-> "absent"]
    /\ detect = [state |-> "idle", start |-> 0, at |-> 0]
    /\ cli = NoCli
    /\ call = NoCall

detectorVars == <<strat, detect>>
sampleVars == <<screenshots, keyFrameIndices, previousAnalysis>>
flagVars == <<loadingComplete, loadingCompleteTime>>

\* browser.screenshot(screenshotPath) as takeScreenshot and
\* captureErrorScreenshot call it: BrowserController.screenshot gets no second
\* argument and passes its default, fullPage = false, to page.screenshot
ScreenshotRequest(path) == [path |-> path, fullPage |-> FALSE]

\* the screenshot requests in flight
PendingShots ==
    {ScreenshotRequest(ShotFilename(t.index, t.timestamp * TickMs)) :
        t \in {u \in {main, sampler} : u.pc = "shot"}}
    \cup {ScreenshotRequest(ErrorFilename(errs[k].index, errs[k].timestamp * TickMs)) :
            k \in 1..Len(errs)}

\* the environment lets a request succeed, or raises one more fault
Outcome(ok) ==
    /\ ok \/ faults < MaxFaults
    /\ faults' = IF ok THEN faults ELSE faults + 1

\* captureSequence is called: `await this.browser.launch()`
Start ==
    /\ main.pc = "idle"
    /\ main' = [main EXCEPT !.pc = "launch"]
    /\ UNCHANGED <<config, cli, call, undetected,
                   now, startTime, sampler, errs, errCount, handlersOn, pageOpen,
                   closeCalls, sampleVars, performanceMetrics, flagVars,
                   detectorVars, deadline, manifest, manifestSaved, faults>>

\* browser.launch settles; then `await this.storage.createCaptureDirectory`
LaunchDone(ok) ==
    /\ main.pc = "launch"
    /\ Outcome(ok)
    /\ IF ok
         THEN /\ pageOpen' = TRUE
              /\ main' = [main EXCEPT !.pc = "mkdir"]
              /\ UNCHANGED closeCalls
         ELSE /\ CatchFault(main)
              /\ UNCHANGED pageOpen
    /\ UNCHANGED <<config, cli, call, undetected,
                   now, startTime, sampler, errs, errCount, handlersOn,
                   sampleVars, performanceMetrics, flagVars, detectorVars,
                   deadline, manifest, manifestSaved>>

\* createCaptureDirectory settles; then getPage, `await injectErrorCapture`
\* (which catches its own faults) and `await setupMetricsCollection`
MkdirDone(ok) ==
    /\ main.pc = "mkdir"
    /\ Outcome(ok)
    /\ IF ok
         THEN /\ main' = [main EXCEPT !.pc = "setupMetrics"]
              /\ UNCHANGED closeCalls
         ELSE CatchFault(main)
    /\ UNCHANGED <<config, cli, call, undetected,
                   now, startTime, sampler, errs, errCount, handlersOn, pageOpen,
                   sampleVars, performanceMetrics, flagVars, detectorVars,
                   deadline, manifest, manifestSaved>>

\* setupMetricsCollection settles; then page.on('pageerror'), page.on('crash')
\* and `await this.browser.navigate(url)`
SetupMetricsDone(ok) ==
    /\ main.pc = "setupMetrics"
    /\ Outcome(ok)
    /\ IF ok
         THEN /\ handlersOn' = TRUE
              /\ main' = [main EXCEPT !.pc = "navigate"]
              /\ UNCHANGED closeCalls
         ELSE /\ CatchFault(main)
              /\ UNCHANGED handlersOn
    /\ UNCHANGED <<config, cli, call, undetected,
                   now, startTime, sampler, errs, errCount, pageOpen,
                   sampleVars, performanceMetrics, flagVars, detectorVars,
                   deadline, manifest, manifestSaved>>

\* navigate settles; then startTime = Date.now() and takeScreenshot('initial', 0)
\* up to `await this.browser.screenshot`
NavigateDone(ok) ==
    /\ main.pc = "navigate"
    /\ Outcome(ok)
    /\ IF ok
         THEN /\ startTime' = now
              /\ main' = [pc |-> "shot", phase |-> "initial",
                          index |-> Len(screenshots), timestamp |-> 0,
                          fault |-> FALSE]
              /\ UNCHANGED closeCalls
         ELSE /\ CatchFault(main)
              /\ UNCHANGED startTime
    /\ UNCHANGED <<config, cli, call, undetected,
                   now, sampler, errs, errCount, handlersOn, pageOpen,
                   sampleVars, performanceMetrics, flagVars, detectorVars,
                   deadline, manifest, manifestSaved>>

\* browser.screenshot and then analyzePage settle for the initial or final
\* sample (takeScreenshot touches no state between the two awaits); then the
\* key-frame check, the push and `await this.metrics.collectMetrics`
MainSampleCaptured(r) ==
    /\ main.pc = "shot"
    /\ Outcome(r \in {SpinnerPage, LoadedPage})
    /\ IF r # Rejected /\ pageOpen
         THEN /\ AppendSample(main.index, main.timestamp, main.phase, r)
              /\ main' = [main EXCEPT !.pc = "metrics", !.index = 0]
              /\ UNCHANGED closeCalls
         ELSE /\ CatchFault(main)
              /\ UNCHANGED sampleVars
    /\ UNCHANGED <<config, cli, call, undetected,
                   now, startTime, sampler, errs, errCount, handlersOn, pageOpen,
                   performanceMetrics, flagVars, detectorVars,
                   deadline, manifest, manifestSaved>>

\* collectMetrics settles for the initial sample; then createFromConfig,
\* detectLoading, captureAtIntervals and the race with the deadline timer
InitialSampleDone(ok) ==
    /\ main.pc = "metrics" /\ main.phase = "initial"
    /\ Outcome(ok)
    /\ performanceMetrics' = IF ok THEN Append(performanceMetrics, main.timestamp)
                             ELSE performanceMetrics
    /\ strat' = createFromConfig(config)
    /\ detect' = [state |-> "pending", start |-> now, at |-> 0]
    /\ sampler' = SamplerLoop(loadingComplete)
    /\ deadline' = "pending"
    /\ main' = [main EXCEPT !.pc = "race"]
    /\ UNCHANGED <<config, cli, call, undetected,
                   now, startTime, errs, errCount, handlersOn, pageOpen,
                   closeCalls, sampleVars, flagVars, manifest, manifestSaved>>

\* collectMetrics settles for the final sample; then generateManifest and
\* `await this.storage.saveManifest`
FinalSampleDone(ok) ==
    /\ main.pc = "metrics" /\ main.phase = "final"
    /\ Outcome(ok)
    /\ performanceMetrics' = IF ok THEN Append(performanceMetrics, main.timestamp)
                             ELSE performanceMetrics
    /\ manifest' = generateManifest
    /\ main' = [main EXCEPT !.pc = "save", !.timestamp = 0]
    /\ UNCHANGED <<config, cli, call, undetected,
                   now, startTime, sampler, errs, errCount, handlersOn, pageOpen,
                   closeCalls, sampleVars, flagVars, detectorVars, deadline,
                   manifestSaved>>

\* saveManifest settles; then `await this.browser.close()` on either path
SaveDone(ok) ==
    /\ main.pc = "save"
    /\ Outcome(ok)
    /\ IF ok
         THEN /\ manifestSaved' = TRUE
              /\ CloseAfterSave(main)
         ELSE /\ CatchFault(main)
              /\ UNCHANGED manifestSaved
    /\ UNCHANGED <<config, cli, call, undetected,
                   now, startTime, sampler, errs, errCount, handlersOn, pageOpen,
                   sampleVars, performanceMetrics, flagVars, detectorVars,
                   deadline, manifest>>

\* a close that lets its fault escape to captureSequence
CloseDoneRethrows(ok) ==
    /\ main.pc = "closing"
    /\ Outcome(ok)
    /\ pageOpen' = IF ok THEN FALSE ELSE pageOpen
    /\ main' = [main EXCEPT !.pc = IF main.fault \/ ~ok THEN "failed" ELSE "done"]
    /\ UNCHANGED <<config, cli, call, undetected,
                   now, startTime, sampler, errs, errCount,
                   handlersOn, closeCalls, sampleVars, performanceMetrics, flagVars,
                   detectorVars, deadline, manifest, manifestSaved>>

\* BrowserController.close returns (it catches its own faults and then leaves
\* this.page set); captureSequence returns the manifest or rethrows
CloseDone(ok) ==
    /\ main.pc = "closing"
    /\ Outcome(ok)
    /\ pageOpen' = IF ok THEN FALSE ELSE pageOpen
    /\ main' = [main EXCEPT !.pc = IF main.fault THEN "failed" ELSE "done"]
    /\ UNCHANGED <<config, cli, call, undetected,
                   now, startTime, sampler, errs, errCount, handlersOn,
                   closeCalls, sampleVars, performanceMetrics, flagVars,
                   detectorVars, deadline, manifest, manifestSaved>>

\* the interval promise rejects: the race rejects with it when captureSequence
\* still waits there (the catch block runs), and nobody observes it otherwise
SamplerRejects ==
    /\ sampler' = [IdleTask EXCEPT !.pc = "failed"]
    /\ IF main.pc = "race"
         THEN CatchFault(main)
         ELSE UNCHANGED <<main, closeCalls>>

\* the sleep timer was created in the turn that created the timers of
\* TimeoutStrategy and of the deadline (between the two), with their delay
SameTurnSleep ==
    /\ sampler.pc = "sleep"
    /\ config.interval = config.duration
    /\ sampler.due = detect.start + config.duration

SleepFiresUnchecked ==
    /\ sampler.pc = "sleep" /\ sampler.due <= now
    /\ SameTurnSleep => strat["timeout"] # "pending"
    /\ IF pageOpen
         THEN /\ sampler' = [pc |-> "shot", index |-> Len(screenshots),
                             timestamp |-> Elapsed, due |-> 0]
              /\ UNCHANGED <<main, closeCalls>>
         ELSE SamplerRejects
    /\ UNCHANGED <<config, cli, call, undetected,
                   now, startTime, errs, errCount, handlersOn, pageOpen,
                   sampleVars, performanceMetrics, flagVars, detectorVars,
                   deadline, manifest, manifestSaved, faults>>

\* the sleep of captureAtIntervals ends; then takeScreenshot('loading', ..) up
\* to `await this.browser.screenshot`, or the loop ends.  Timers of equal
\* delay fire in the order of their creation.
SleepFires ==
    /\ sampler.pc = "sleep" /\ sampler.due <= now
    /\ SameTurnSleep => strat["timeout"] # "pending"
    /\ IF ~loadingComplete
         THEN IF pageOpen
                THEN /\ sampler' = [pc |-> "shot", index |-> Len(screenshots),
                                    timestamp |-> Elapsed, due |-> 0]
                     /\ UNCHANGED <<main, closeCalls>>
                ELSE SamplerRejects
         ELSE /\ sampler' = SamplerLoop(loadingComplete)
              /\ main' = RaceResume(detect.state, sampler'.pc)
              /\ UNCHANGED closeCalls
    /\ UNCHANGED <<config, cli, call, undetected,
                   now, startTime, errs, errCount, handlersOn, pageOpen,
                   sampleVars, performanceMetrics, flagVars, detectorVars,
                   deadline, manifest, manifestSaved, faults>>

\* browser.screenshot and then analyzePage settle for an interval sample
SamplerSampleCaptured(r) ==
    /\ sampler.pc = "shot"
    /\ Outcome(r \in {SpinnerPage, LoadedPage})
    /\ IF r # Rejected /\ pageOpen
         THEN /\ AppendSample(sampler.index, sampler.timestamp, "loading", r)
              /\ sampler' = [sampler EXCEPT !.pc = "metrics", !.index = 0]
              /\ UNCHANGED <<main, closeCalls>>
         ELSE /\ SamplerRejects
              /\ UNCHANGED sampleVars
    /\ UNCHANGED <<config, cli, call, undetected,
                   now, startTime, errs, errCount, handlersOn, pageOpen,
                   performanceMetrics, flagVars, detectorVars,
                   deadline, manifest, manifestSaved>>

SamplerMetricsDoneUncaught(ok) ==
    /\ sampler.pc = "metrics"
    /\ Outcome(ok)
    /\ IF ok
         THEN /\ performanceMetrics' = Append(performanceMetrics, sampler.timestamp)
              /\ sampler' = SamplerLoop(loadingComplete)
              /\ main' = RaceResume(detect.state, sampler'.pc)
              /\ UNCHANGED closeCalls
         ELSE /\ SamplerRejects
              /\ UNCHANGED performanceMetrics
    /\ UNCHANGED <<config, cli, call, undetected,
                   now, startTime, errs, errCount, handlersOn, pageOpen,
                   sampleVars, flagVars, detectorVars, deadline,
                   manifest, manifestSaved>>

\* collectMetrics settles for an interval sample; then the loop condition
SamplerMetricsDone(ok) ==
    /\ sampler.pc = "metrics"
    /\ Outcome(ok)
    /\ performanceMetrics' = IF ok THEN Append(performanceMetrics, sampler.timestamp)
                             ELSE performanceMetrics
    /\ sampler' = SamplerLoop(loadingComplete)
    /\ main' = RaceResume(detect.state, sampler'.pc)
    /\ UNCHANGED <<config, cli, call, undetected,
                   now, startTime, errs, errCount, handlersOn, pageOpen,
                   closeCalls, sampleVars, flagVars, detectorVars, deadline,
                   manifest, manifestSaved>>

\* the events the page may emit, with the arguments their handlers pass to
\* captureErrorScreenshot
PageEvents ==
    {[type |-> "js-error", message |-> "x is not defined"],
     [type |-> "crash", message |-> "Page crashed"]}

\* a pageerror or crash event: captureErrorScreenshot up to
\* `await this.browser.screenshot`
PageEvent(type, message) ==
    /\ handlersOn /\ pageOpen
    /\ errCount < MaxErrors
    /\ errCount' = errCount + 1
    /\ errs' = Append(errs, [index |-> Len(screenshots), timestamp |-> Elapsed,
                             type |-> type, message |-> message])
    /\ UNCHANGED <<config, cli, call, undetected,
                   now, startTime, main, sampler, handlersOn, pageOpen,
                   closeCalls, sampleVars, performanceMetrics, flagVars,
                   detectorVars, deadline, manifest, manifestSaved, faults>>

\* s without its k-th element
RemoveAt(s, k) == SubSeq(s, 1, k - 1) \o SubSeq(s, k + 1, Len(s))

\* an error capture without its try/catch: its fault reaches captureSequence
ErrShotDoneUncaught(k, ok) ==
    /\ k \in 1..Len(errs)
    /\ Outcome(ok)
    /\ IF ok /\ pageOpen
         THEN /\ screenshots' = Append(screenshots,
                                       ErrorSample(errs[k].index, errs[k].timestamp,
                                                   errs[k].type, errs[k].message))
              /\ keyFrameIndices' = keyFrameIndices \cup {errs[k].index}
              /\ UNCHANGED <<main, closeCalls>>
         ELSE /\ CatchFault(main)
              /\ UNCHANGED <<screenshots, keyFrameIndices>>
    /\ errs' = RemoveAt(errs, k)
    /\ UNCHANGED <<config, cli, call, undetected,
                   now, startTime, sampler, errCount, handlersOn,
                   pageOpen, previousAnalysis, performanceMetrics,
                   flagVars, detectorVars, deadline, manifest, manifestSaved>>

\* browser.screenshot of the k-th pending error sample settles: the push and
\* keyFrameIndices.add, or the catch block of captureErrorScreenshot
ErrShotDone(k, ok) ==
    /\ k \in 1..Len(errs)
    /\ Outcome(ok)
    /\ IF ok /\ pageOpen
         THEN /\ screenshots' = Append(screenshots,
                                       ErrorSample(errs[k].index, errs[k].timestamp,
                                                   errs[k].type, errs[k].message))
              /\ keyFrameIndices' = keyFrameIndices \cup {errs[k].index}
         ELSE UNCHANGED <<screenshots, keyFrameIndices>>
    /\ errs' = RemoveAt(errs, k)
    /\ UNCHANGED <<config, cli, call, undetected,
                   now, startTime, main, sampler, errCount, handlersOn,
                   pageOpen, closeCalls, previousAnalysis, performanceMetrics,
                   flagVars, detectorVars, deadline, manifest, manifestSaved>>

\* a strategy of the session's detector resolves; when the composite resolves
\* detectLoading sets loadingComplete, and the Promise.all may resolve
StrategySettles(s, r) ==
    /\ main.pc # "idle"
    /\ DetectorStep(s, r)
    /\ IF detect'.state = "true"
         THEN /\ loadingComplete' = TRUE
              /\ loadingCompleteTime' = Elapsed
         ELSE UNCHANGED flagVars
    /\ main' = RaceResume(detect'.state, sampler.pc)
    /\ UNCHANGED <<config, cli, call, undetected,
                   now, startTime, sampler, errs, errCount, handlersOn, pageOpen,
                   closeCalls, sampleVars, performanceMetrics, deadline,
                   manifest, manifestSaved, faults>>

DeadlineFiresUnraced ==
    /\ deadline = "pending"
    /\ detect.start + config.duration <= now
    /\ strat["timeout"] # "pending"
    /\ ~SameTurnSleep
    /\ deadline' = "fired"
    /\ undetected' = ~loadingComplete
    /\ UNCHANGED <<config, cli, call, main,
                   now, startTime, sampler, errs, errCount, handlersOn, pageOpen,
                   closeCalls, sampleVars, performanceMetrics, flagVars,
                   detectorVars, manifest, manifestSaved, faults>>

\* the deadline timer of the race fires.  It was created after the timer of
\* TimeoutStrategy with the same delay, so it fires after that one.
DeadlineFires ==
    /\ deadline = "pending"
    /\ detect.start + config.duration <= now
    /\ strat["timeout"] # "pending"
    /\ ~SameTurnSleep
    /\ deadline' = "fired"
    /\ undetected' = ~loadingComplete
    /\ main' = IF main.pc = "race" THEN BeginFinal ELSE main
    /\ UNCHANGED <<config, cli, call,
                   now, startTime, sampler, errs, errCount, handlersOn, pageOpen,
                   closeCalls, sampleVars, performanceMetrics, flagVars,
                   detectorVars, manifest, manifestSaved, faults>>

\* some pending timer is due
TimerDue ==
    \/ sampler.pc = "sleep" /\ sampler.due <= now
    \/ deadline = "pending" /\ detect.start + config.duration <= now
    \/ \E s \in StrategyNames :
         strat[s] = "pending" /\ StrategyDue(s, detect.start) <= now

\* some timer is still to fire
TimerPending ==
    \/ sampler.pc = "sleep"
    \/ deadline = "pending"
    \/ \E s \in StrategyNames : strat[s] = "pending"

\* the clock advances by one tick
Tick ==
    /\ \/ main.pc \in {"shot", "metrics", "save", "closing"}
       \/ TimerPending
    /\ ~TimerDue
    /\ Elapsed < MaxElapsed
    /\ main.phase = "initial" /\ main.pc # "race" => Elapsed < MaxInitDelay
    /\ now' = now + 1
    /\ UNCHANGED <<config, cli, call, captureVars, detectorVars>>

Next ==
    \/ Start
    \/ \E ok \in BOOLEAN : LaunchDone(ok)
    \/ \E ok \in BOOLEAN : MkdirDone(ok)
    \/ \E ok \in BOOLEAN : SetupMetricsDone(ok)
    \/ \E ok \in BOOLEAN : NavigateDone(ok)
    \/ \E r \in SampleOutcomes : MainSampleCaptured(r)
    \/ \E ok \in BOOLEAN : InitialSampleDone(ok)
    \/ \E ok \in BOOLEAN : FinalSampleDone(ok)
    \/ \E ok \in BOOLEAN : SaveDone(ok)
    \/ \E ok \in BOOLEAN : CloseDone(ok)
    \/ SleepFires
    \/ \E r \in SampleOutcomes : SamplerSampleCaptured(r)
    \/ \E ok \in BOOLEAN : SamplerMetricsDone(ok)
    \/ \E e \in PageEvents : PageEvent(e.type, e.message)
    \/ \E k \in 1..MaxErrors, ok \in BOOLEAN : ErrShotDone(k, ok)
    \/ \E s \in StrategyNames, r \in {"true", "false"} : StrategySettles(s, r)
    \/ DeadlineFires
    \/ Tick

Spec == Init /\ [][Next]_vars

----------------------------------------------------------------------------
(* Capture sessions with and without a configured full-page flag *)

\* new ScreenshotCapturer(config), config.fullPage given or left out
InitFullPage ==
    /\ config \in [duration : {FullPageDuration}, interval : {Interval},
                   waitFor : {FALSE}]
                  \cup [duration : {FullPageDuration}, interval : {Interval},
                        waitFor : {FALSE}, fullPage : BOOLEAN]
    /\ CaptureInit
    /\ strat = [s \in StrategyNames |-> "absent"]
    /\ detect = [state |-> "idle", start |-> 0, at |-> 0]
    /\ cli = NoCli
    /\ call = NoCall

SpecFullPage == InitFullPage /\ [][Next]_vars

----------------------------------------------------------------------------
(* The detector on its own: LoadingDetector.createFromConfig(config).detect(page) *)

\* createFromConfig(config).detect(page) has just been called
DetectorInit ==
    /\ config \in [duration : 1..MaxDetectDuration, interval : {Interval},
                   waitFor : BOOLEAN]
    /\ CaptureInit
    /\ strat = createFromConfig(config)
    /\ detect = [state |-> "pending", start |-> now, at |-> 0]
    /\ cli = NoCli
    /\ call = NoCall

\* a strategy of the detector resolves
DetectorSettles(s, r) ==
    /\ DetectorStep(s, r)
    /\ UNCHANGED <<config, cli, call, now, captureVars>>

\* the clock advances by one tick while the detector runs
DetectorTick ==
    /\ detect.state = "pending"
    /\ ~TimerDue
    /\ now - detect.start < DetectMaxElapsed
    /\ now' = now + 1
    /\ UNCHANGED <<config, cli, call, captureVars, detectorVars>>

DetectorNext ==
    \/ \E s \in StrategyNames, r \in {"true", "false"} : DetectorSettles(s, r)
    \/ DetectorTick

SpecDetector == DetectorInit /\ [][DetectorNext]_vars

----------------------------------------------------------------------------
(* captureCommand: the options of the command line up to the browser launch *)

\* JavaScript values of the parsed options
Val(n) == [kind |-> "num", val |-> n]
NaN == [kind |-> "nan", val |-> 0]
Undefined == [kind |-> "undefined", val |-> 0]

CharPlus == 43
CharX == 120
IsDigit(c) == c \in 48..57

\* the longest prefix of s made of digits
RECURSIVE LeadingDigits(_)
LeadingDigits(s) ==
    IF s = <<>> \/ ~IsDigit(Head(s)) THEN <<>>
    ELSE <<Head(s)>> \o LeadingDigits(Tail(s))

\* s without its sign character, if it has one
Unsigned(s) ==
    IF s # <<>> /\ Head(s) \in {CharPlus, CharDash} THEN Tail(s) ELSE s

Signed(s, n) == IF s # <<>> /\ Head(s) = CharDash THEN -n ELSE n

\* parseInt(s): an optional sign and the digits that follow it, whatever comes
\* after them; NaN when there is no digit
parseInt(s) ==
    LET digits == LeadingDigits(Unsigned(s))
    IN IF digits = <<>> THEN NaN
       ELSE Val(Signed(s, ParseDigits(digits, 1, 0)))

\* Number(s) for a string: 0 for the empty string, the value of an optionally
\* signed run of digits, NaN for anything else among the options modelled
Number(s) ==
    LET body == Unsigned(s)
    IN IF s = <<>> THEN Val(0)
       ELSE IF body # <<>> /\ LeadingDigits(body) = body
              THEN Val(Signed(s, ParseDigits(body, 1, 0)))
              ELSE NaN

\* s.split(c)
RECURSIVE Split(_, _)
Split(s, c) ==
    IF \E i \in 1..Len(s) : s[i] = c
      THEN LET i == CHOOSE j \in 1..Len(s) : s[j] = c /\ \A k \in 1..(j - 1) : s[k] # c
           IN <<SubSeq(s, 1, i - 1)>> \o Split(SubSeq(s, i + 1, Len(s)), c)
      ELSE <<s>>

\* array[i] of a JavaScript array (i from 0)
ElementAt(array, i) == IF i < Len(array) THEN array[i + 1] ELSE Undefined

\* captureCommand builds the CaptureConfig from its options
ParseOptions(options) ==
    LET dims == Split(options.viewport, CharX)
        sizes == [k \in 1..Len(dims) |-> Number(dims[k])]
    IN [duration |-> parseInt(options.duration),
        interval |-> parseInt(options.interval),
        viewport |-> [width |-> ElementAt(sizes, 0), height |-> ElementAt(sizes, 1)]]

\* the constructor of ScreenshotCapturer: { duration: 10000, interval: 500,
\* ...config }, and the viewport handed to BrowserController
ConstructConfig(cfg) ==
    [duration |-> IF "duration" \in DOMAIN cfg THEN cfg.duration ELSE Val(10000),
     interval |-> IF "interval" \in DOMAIN cfg THEN cfg.interval ELSE Val(500),
     viewport |-> cfg.viewport]

\* values of --duration and --interval: "5000", "5s", "0", "-1", "invalid"
NumberOptions ==
    {<<53, 48, 48, 48>>, <<53, 115>>, <<48>>, <<45, 49>>,
     <<105, 110, 118, 97, 108, 105, 100>>}

\* values of --viewport: "1280x720", "0x0", "800", "axb", "-1x5"
ViewportOptions ==
    {<<49, 50, 56, 48, 120, 55, 50, 48>>, <<48, 120, 48>>, <<56, 48, 48>>,
     <<97, 120, 98>>, <<45, 49, 120, 53>>}

NoConfig == [none |-> TRUE]

\* captureCommand(options) has been called
CliInit ==
    /\ cli \in [pc : {"called"},
                options : [duration : NumberOptions, interval : NumberOptions,
                           viewport : ViewportOptions]]
    /\ call = NoCall
    /\ config = NoConfig
    /\ CaptureInit
    /\ strat = [s \in StrategyNames |-> "absent"]
    /\ detect = [state |-> "idle", start |-> 0, at |-> 0]

\* captureCommand up to `await capturer.captureSequence()`, which runs up to
\* `await this.browser.launch()`
CaptureCommand ==
    /\ cli.pc = "called"
    /\ config' = ConstructConfig(ParseOptions(cli.options))
    /\ main' = [main EXCEPT !.pc = "launch"]
    /\ cli' = [cli EXCEPT !.pc = "capturing"]
    /\ UNCHANGED <<call, undetected, now, startTime, sampler, errs, errCount, handlersOn,
                   pageOpen, closeCalls, sampleVars, performanceMetrics, flagVars,
                   detectorVars, deadline, manifest, manifestSaved, faults>>

\* captureSequence has rejected: the catch block of captureCommand logs the
\* fault and calls process.exit(1)
CaptureCommandFails ==
    /\ cli.pc = "capturing"
    /\ main.pc = "failed"
    /\ cli' = [cli EXCEPT !.pc = "exit1"]
    /\ UNCHANGED <<config, call, now, captureVars, detectorVars>>

CliNext ==
    \/ CaptureCommand
    \/ \E ok \in BOOLEAN : LaunchDone(ok)
    \/ \E ok \in BOOLEAN : CloseDone(ok)
    \/ CaptureCommandFails

SpecCli == CliInit /\ [][CliNext]_vars

\* the timers of the event loop fire when they are due and time goes on:
\* the sleep of the sampler, the timer of TimeoutStrategy, the timeouts of
\* the waits of the other strategies and the deadline timer of the race.
\* Nothing is assumed of requests to the browser or the file system, of page
\* events, or of waits that succeed.
Fairness ==
    /\ WF_vars(Tick)
    /\ WF_vars(SleepFires)
    /\ WF_vars(DeadlineFires)
    /\ WF_vars(StrategySettles("timeout", "true"))
    /\ WF_vars(\E s \in StrategyNames : StrategySettles(s, "false"))

\* duration, in ticks, of the sessions whose progress is checked
LiveDuration == 1

\* new ScreenshotCapturer(config) with that duration
InitLive == Init /\ config.duration = LiveDuration

SpecLive == InitLive /\ [][Next]_vars /\ Fairness

----------------------------------------------------------------------------
(* Single calls of the pure parts: file naming, comparator, analyzer, strategies *)

\* no capture session and no command is running
NoSession ==
    /\ cli = NoCli
    /\ config = NoConfig
    /\ CaptureInit
    /\ strat = [s \in StrategyNames |-> "absent"]
    /\ detect = [state |-> "idle", start |-> 0, at |-> 0]

\* values of this.screenshots.length when a sample is named: around every
\* change of the number of digits of the index
SampleIndices == {0, 1, 9, 10, 99, 100, 999, 1000}

\* values of the timestamp of a sample, in milliseconds
SampleTimes == {0, 500, 1000}

\* a sample about to be named
SampleArgs == [index : SampleIndices, timestamp : SampleTimes, error : BOOLEAN]

\* the filename takeScreenshot or captureErrorScreenshot gives a sample
FilenameOf(sample) ==
    IF sample.error THEN ErrorFilename(sample.index, sample.timestamp)
    ELSE ShotFilename(sample.index, sample.timestamp)

\* two samples of one session, the first appended before the second, each
\* with the index of its position
FilenamesInit ==
    /\ call \in {c \in [pc : {"args"}, op : {"filenames"},
                        first : SampleArgs, second : SampleArgs] :
                   /\ c.first.index < c.second.index
                   /\ c.first.timestamp <= c.second.timestamp}
    /\ NoSession

\* both samples are named
NameSamples ==
    /\ call.pc = "args" /\ call.op = "filenames"
    /\ call' = [pc |-> "named", op |-> "filenames",
                first |-> call.first, second |-> call.second,
                names |-> <<FilenameOf(call.first), FilenameOf(call.second)>>]
    /\ UNCHANGED <<config, cli, now, captureVars, detectorVars>>

SpecFilenames == FilenamesInit /\ [][NameSamples]_vars

----------------------------------------------------------------------------
(* ScreenshotComparator *)

\* RGBA values of a pixel
Pixels == {<<0, 0, 0, 255>>, <<5, 5, 5, 255>>, <<0, 20, 0, 255>>, <<0, 0, 0, 250>>}

\* largest number of pixels of an image
MaxPixels == 2

\* width and height of a decoded PNG
Dimensions ==
    {d \in (1..MaxPixels) \X (1..MaxPixels) : d[1] * d[2] <= MaxPixels}

\* PNG.sync.read(data): width, height and the pixels row by row
Images ==
    UNION {[width : {d[1]}, height : {d[2]},
            data : [1..(d[1] * d[2]) -> Pixels]] : d \in Dimensions}

\* a number of per cent as a fraction <<numerator, denominator>>
Percent(n) == <<n, 1>>
LeqFraction(a, b) == a[1] * b[2] <= b[1] * a[2]

\* the defaults of the constructor: 0.1 per cent, and 10 of 255
DefaultThreshold == <<1, 10>>
DefaultPixelThreshold == 10

\* options given to the constructor
ThresholdOptions == {Undefined, Val(0), Val(50), Val(100)}
PixelThresholdOptions == {Undefined, Val(0), Val(5), Val(255)}

\* v || fallback of JavaScript, v a number or undefined
Truthy(v) == v.kind = "num" /\ v.val # 0

\* new ScreenshotComparator(options)
ScreenshotComparator(options) ==
    [threshold |-> IF Truthy(options.threshold)
                   THEN Percent(options.threshold.val) ELSE DefaultThreshold,
     pixelThreshold |-> IF Truthy(options.pixelThreshold)
                        THEN options.pixelThreshold.val
                        ELSE DefaultPixelThreshold]

Max(a, b) == IF a > b THEN a ELSE b

\* pixelDiff of the pixels p and q
pixelDiff(p, q) ==
    Max(Max(Abs(p[1] - q[1]), Abs(p[2] - q[2])),
        Max(Abs(p[3] - q[3]), Abs(p[4] - q[4])))

\* diffPixels after the loop over all pixels
diffPixels(baseline, current, pixelThreshold) ==
    Cardinality({i \in DOMAIN baseline.data :
                   pixelDiff(baseline.data[i], current.data[i]) > pixelThreshold})

SizeMismatchByThreshold(baseline, threshold) ==
    [isMatch |-> LeqFraction(Percent(100), threshold),
     diffPercentage |-> Percent(100),
     diffPixels |-> baseline.width * baseline.height,
     totalPixels |-> baseline.width * baseline.height,
     diffImage |-> FALSE]

\* the result returned for images of different dimensions
SizeMismatch(baseline, threshold) ==
    [isMatch |-> FALSE,
     diffPercentage |-> Percent(100),
     diffPixels |-> baseline.width * baseline.height,
     totalPixels |-> baseline.width * baseline.height,
     diffImage |-> FALSE]

\* the diff PNG built by the loop over the pixels: red where the pixels
\* differ, the colour of the baseline argument at alpha 128 elsewhere
DiffImage(baseline, current, pixelThreshold) ==
    [width |-> baseline.width, height |-> baseline.height,
     data |-> [i \in DOMAIN baseline.data |->
                 IF pixelDiff(baseline.data[i], current.data[i]) > pixelThreshold
                   THEN <<255, 0, 0, 255>>
                   ELSE <<baseline.data[i][1], baseline.data[i][2],
                          baseline.data[i][3], 128>>]]

DiffImageAlways(outputPath, count) == outputPath

\* whether the diff image is written to outputPath
DiffImageWritten(outputPath, count) == outputPath /\ count > 0

\* compareScreenshots(baselinePath, currentPath, outputPath) of a comparator,
\* both files holding a PNG; outputPath is whether the argument is given
compareScreenshots(comparator, baseline, current, outputPath) ==
    IF baseline.width # current.width \/ baseline.height # current.height
    THEN SizeMismatch(baseline, comparator.threshold)
    ELSE LET count == diffPixels(baseline, current, comparator.pixelThreshold)
             totalPixels == baseline.width * baseline.height
             diffPercentage == <<count * 100, totalPixels>>
         IN  [isMatch |-> LeqFraction(diffPercentage, comparator.threshold),
              diffPercentage |-> diffPercentage,
              diffPixels |-> count,
              totalPixels |-> totalPixels,
              diffImage |-> DiffImageWritten(outputPath, count)]

\* a comparator has been constructed and compareScreenshots called
CompareInit ==
    /\ call \in [pc : {"args"}, op : {"compare"},
                 options : [threshold : ThresholdOptions,
                            pixelThreshold : PixelThresholdOptions],
                 baseline : Images, current : Images, outputPath : BOOLEAN]
    /\ NoSession

\* compareScreenshots returns
CompareScreenshots ==
    /\ call.pc = "args" /\ call.op = "compare"
    /\ call' = [pc |-> "compared", op |-> "compare", options |-> call.options,
                baseline |-> call.baseline, current |-> call.current,
                outputPath |-> call.outputPath,
                result |-> compareScreenshots(ScreenshotComparator(call.options),
                                              call.baseline, call.current,
                                              call.outputPath)]
    /\ UNCHANGED <<config, cli, now, captureVars, detectorVars>>

SpecCompare == CompareInit /\ [][CompareScreenshots]_vars

\* largest number of key frames of a manifest
MaxKeyFrames == 2

\* filenames of key frames
KeyFrameNames == {"000-0ms.png", "001-500ms.png"}

\* analysis.keyFrames of a manifest
KeyFrameLists == UNION {[1..n -> KeyFrameNames] : n \in 0..MaxKeyFrames}

\* what a directory holds under a filename: nothing, or a PNG
Absent == [width |-> 0, height |-> 0, data |-> <<>>]
FileContents ==
    {Absent} \cup
    {i \in Images : /\ i.height = 1
                    /\ i.data[1] \in {<<0, 0, 0, 255>>, <<0, 20, 0, 255>>}
                    /\ \E p \in {<<0, 0, 0, 255>>, <<5, 5, 5, 255>>} :
                         \A k \in DOMAIN i.data \ {1} : i.data[k] = p}

\* the entry pushed by the catch block of the loop
ForcedNonMatch ==
    [isMatch |-> FALSE, diffPercentage |-> Percent(100), diffPixels |-> 0,
     totalPixels |-> 0, diffImage |-> FALSE]

\* one pass of the loop over the key frames: the entry pushed for keyFrame
KeyFrameComparison(comparator, keyFrame, currentDir, baselineDir) ==
    [screenshot |-> keyFrame,
     result |-> IF baselineDir[keyFrame] = Absent \/ currentDir[keyFrame] = Absent
                THEN ForcedNonMatch
                ELSE compareScreenshots(comparator, currentDir[keyFrame],
                                        baselineDir[keyFrame], TRUE)]

\* what one pass of the loop leaves at diffPath: nothing, or the diff PNG
KeyFrameDiffFile(comparator, keyFrame, currentDir, baselineDir) ==
    LET first == currentDir[keyFrame]
        second == baselineDir[keyFrame]
    IN  IF first = Absent \/ second = Absent THEN Absent
        ELSE IF compareScreenshots(comparator, first, second, TRUE).diffImage
          THEN DiffImage(first, second, comparator.pixelThreshold)
          ELSE Absent

\* Math.max over the diffPercentage of the entries, from 0
MaxDiffPercentage(comparisons) ==
    LET all == {comparisons[i].result.diffPercentage : i \in DOMAIN comparisons}
                 \cup {Percent(0)}
    IN  CHOOSE f \in all : \A g \in all : LeqFraction(g, f)

compareWithBaselineAborting(comparator, args) ==
    IF ~args.baselineExists
    THEN [kind |-> "returned", baselineExists |-> FALSE, comparisons |-> <<>>,
          overallMatch |-> FALSE, maxDiffPercentage |-> Percent(0)]
    ELSE IF ~args.currentManifest \/ ~args.baselineManifest
              \/ \E i \in DOMAIN args.keyFrames :
                    args.baselineDir[args.keyFrames[i]] = Absent
    THEN [kind |-> "threw", baselineExists |-> TRUE, comparisons |-> <<>>,
          overallMatch |-> FALSE, maxDiffPercentage |-> Percent(0)]
    ELSE LET comparisons ==
                 [i \in DOMAIN args.keyFrames |->
                    KeyFrameComparison(comparator, args.keyFrames[i],
                                       args.currentDir, args.baselineDir)]
         IN  [kind |-> "returned", baselineExists |-> TRUE,
              comparisons |-> comparisons,
              overallMatch |-> \A i \in DOMAIN comparisons :
                                  comparisons[i].result.isMatch,
              maxDiffPercentage |-> MaxDiffPercentage(comparisons)]

\* compareWithBaseline(currentCaptureDir, baselineCaptureDir)
compareWithBaseline(comparator, args) ==
    IF ~args.baselineExists
    THEN [kind |-> "returned", baselineExists |-> FALSE, comparisons |-> <<>>,
          overallMatch |-> FALSE, maxDiffPercentage |-> Percent(0)]
    ELSE IF ~args.currentManifest \/ ~args.baselineManifest
    THEN [kind |-> "threw", baselineExists |-> TRUE, comparisons |-> <<>>,
          overallMatch |-> FALSE, maxDiffPercentage |-> Percent(0)]
    ELSE LET comparisons ==
                 [i \in DOMAIN args.keyFrames |->
                    KeyFrameComparison(comparator, args.keyFrames[i],
                                       args.currentDir, args.baselineDir)]
         IN  [kind |-> "returned", baselineExists |-> TRUE,
              comparisons |-> comparisons,
              overallMatch |-> \A i \in DOMAIN comparisons :
                                  comparisons[i].result.isMatch,
              maxDiffPercentage |-> MaxDiffPercentage(comparisons)]

\* a default comparator has been constructed and compareWithBaseline called:
\* whether the baseline directory and the two manifests can be read, the key
\* frames of the current manifest and the files of both directories
BaselineInit ==
    /\ call \in [pc : {"args"}, op : {"baseline"},
                 baselineExists : BOOLEAN, currentManifest : BOOLEAN,
                 baselineManifest : BOOLEAN, keyFrames : KeyFrameLists,
                 currentDir : [KeyFrameNames -> FileContents],
                 baselineDir : [KeyFrameNames -> FileContents]]
    /\ NoSession

\* compareWithBaseline returns or throws
CompareWithBaseline ==
    /\ call.pc = "args" /\ call.op = "baseline"
    /\ LET comparator == ScreenshotComparator([threshold |-> Undefined,
                                               pixelThreshold |-> Undefined])
           result == compareWithBaseline(comparator, call)
       IN  call' = [pc |-> "compared", op |-> "baseline", args |-> call,
                    result |-> result,
                    diffFiles |-> [i \in DOMAIN result.comparisons |->
                                     KeyFrameDiffFile(comparator, call.keyFrames[i],
                                                      call.currentDir,
                                                      call.baselineDir)]]
    /\ UNCHANGED <<config, cli, now, captureVars, detectorVars>>

SpecBaseline == BaselineInit /\ [][CompareWithBaseline]_vars

\* the position of the first key frame whose file is missing from dir, or
\* one past the last key frame
FirstMissing(keyFrames, dir) ==
    LET missing == {i \in DOMAIN keyFrames : dir[keyFrames[i]] = Absent}
    IN  IF missing = {} THEN Len(keyFrames) + 1
        ELSE CHOOSE i \in missing : \A j \in missing : i <= j

createBaselineKeeping(args) ==
    IF ~args.currentManifest
    THEN [args EXCEPT !.pc = "threw", !.baselineExists = TRUE]
    ELSE LET stop == FirstMissing(args.keyFrames, args.currentDir)
             copied == {args.keyFrames[i] : i \in 1..(stop - 1)}
         IN  [args EXCEPT
                !.pc = IF stop > Len(args.keyFrames) THEN "created" ELSE "threw",
                !.baselineExists = TRUE,
                !.baselineManifest = @ \/ stop > Len(args.keyFrames),
                !.baselineDir = [n \in KeyFrameNames |->
                                   IF n \in copied /\ args.baselineDir[n] = Absent
                                     THEN args.currentDir[n]
                                     ELSE args.baselineDir[n]]]

\* createBaseline(captureDir, baselineDir): the baseline directory is made,
\* the manifest read, the key frames copied one by one until a copy fails,
\* then the manifest copied; args holds the two directories, args.currentDir
\* being the capture
createBaseline(args) ==
    IF ~args.currentManifest
    THEN [args EXCEPT !.pc = "threw", !.baselineExists = TRUE]
    ELSE LET stop == FirstMissing(args.keyFrames, args.currentDir)
             copied == {args.keyFrames[i] : i \in 1..(stop - 1)}
         IN  [args EXCEPT
                !.pc = IF stop > Len(args.keyFrames) THEN "created" ELSE "threw",
                !.baselineExists = TRUE,
                !.baselineManifest = @ \/ stop > Len(args.keyFrames),
                !.baselineDir = [n \in KeyFrameNames |->
                                   IF n \in copied THEN args.currentDir[n]
                                   ELSE args.baselineDir[n]]]

\* createBaseline is about to be called on a capture directory and a
\* baseline directory that may exist already, with older files
RoundTripInit ==
    /\ call \in [pc : {"args"}, op : {"roundtrip"},
                 baselineExists : BOOLEAN, currentManifest : BOOLEAN,
                 baselineManifest : {FALSE}, keyFrames : KeyFrameLists,
                 currentDir : [KeyFrameNames -> FileContents],
                 baselineDir : [KeyFrameNames -> FileContents]]
    /\ NoSession

\* createBaseline returns or throws
CreateBaseline ==
    /\ call.pc = "args" /\ call.op = "roundtrip"
    /\ call' = createBaseline(call)
    /\ UNCHANGED <<config, cli, now, captureVars, detectorVars>>

\* compareWithBaseline on the same two directories, after createBaseline
CompareAfterCreate ==
    /\ call.pc \in {"created", "threw"} /\ call.op = "roundtrip"
    /\ call' = [pc |-> "compared", op |-> "roundtrip", args |-> call,
                result |-> compareWithBaseline(
                               ScreenshotComparator([threshold |-> Undefined,
                                                     pixelThreshold |-> Undefined]),
                               call)]
    /\ UNCHANGED <<config, cli, now, captureVars, detectorVars>>

SpecRoundTrip == RoundTripInit /\ [][CreateBaseline \/ CompareAfterCreate]_vars

----------------------------------------------------------------------------
(* VisualAnalyzer.calculateTextSimilarity on its own *)

\* longest text compared
MaxTextLen == 3

\* characters of the texts
TextChars == {"a", "b"}

\* the trimmed body texts of two analyses
Texts == UNION {[1..n -> TextChars] : n \in 0..MaxTextLen}

\* two texts are about to be compared
SimilarityInit ==
    /\ call \in [pc : {"args"}, op : {"similarity"}, text1 : Texts, text2 : Texts]
    /\ NoSession

\* calculateTextSimilarity is called on the two texts in both orders, and on
\* the first text and itself
CalculateTextSimilarity ==
    /\ call.pc = "args" /\ call.op = "similarity"
    /\ call' = [pc |-> "similar", op |-> "similarity",
                text1 |-> call.text1, text2 |-> call.text2,
                forward |-> calculateTextSimilarity(call.text1, call.text2),
                backward |-> calculateTextSimilarity(call.text2, call.text1),
                self |-> calculateTextSimilarity(call.text1, call.text1)]
    /\ UNCHANGED <<config, cli, now, captureVars, detectorVars>>

SpecSimilarity == SimilarityInit /\ [][CalculateTextSimilarity]_vars

----------------------------------------------------------------------------
(* The detection strategies, each on its own, and CompositeStrategy over them *)

\* the LoadingStrategy classes a CompositeStrategy can be built from
LoadingStrategies == {"networkIdle", "domReady", "elementPresent", "timeout"}

\* how the wait a strategy awaits ends: page.waitForLoadState and
\* page.waitForSelector resolve, throw (the page was closed, say) or reject
\* with a TimeoutError; the timer of TimeoutStrategy only elapses
WaitOutcomes(s) ==
    IF s = "timeout" THEN {"elapsed"} ELSE {"resolved", "threw", "timedOut"}

detectUncaught(s, wait) ==
    IF s = "timeout" THEN "true"
    ELSE IF wait = "resolved" THEN "true" ELSE "rejected"

\* how the promise of strategy.detect(page) settles, given its wait
detect_(s, wait) ==
    IF s = "timeout" THEN "true"
    ELSE IF wait = "resolved" THEN "true" ELSE "false"

\* CompositeStrategy.detect: Promise.all of the promises of the strategies,
\* then results.some
CompositeDetect(results) ==
    IF \E s \in DOMAIN results : results[s] = "rejected" THEN "rejected"
    ELSE IF \E s \in DOMAIN results : results[s] = "true" THEN "true"
    ELSE "false"

\* a CompositeStrategy over some of the strategies is about to detect, and
\* the wait of each of its strategies will end in the way given
StrategiesInit ==
    /\ call \in UNION {[pc : {"args"}, op : {"detect"},
                        waits : {w \in [present -> {"resolved", "threw",
                                                    "timedOut", "elapsed"}] :
                                   \A s \in present : w[s] \in WaitOutcomes(s)}] :
                       present \in SUBSET LoadingStrategies}
    /\ NoSession

\* every strategy settles and CompositeStrategy.detect with them
StrategiesDetect ==
    /\ call.pc = "args" /\ call.op = "detect"
    /\ LET results == [s \in DOMAIN call.waits |-> detect_(s, call.waits[s])]
       IN  call' = [pc |-> "detected", op |-> "detect", waits |-> call.waits,
                    results |-> results, composite |-> CompositeDetect(results)]
    /\ UNCHANGED <<config, cli, now, captureVars, detectorVars>>

SpecStrategies == StrategiesInit /\ [][StrategiesDetect]_vars

----------------------------------------------------------------------------
(* BrowserController.close on its own *)

\* what launch creates, in this order; close closes them in the reverse one
Resources == <<"browser", "context", "page">>
ResourceNames == {Resources[i] : i \in DOMAIN Resources}

\* the fields of a controller on which launch got as far as creating the
\* first n resources
LaunchedFields(n) ==
    [r \in ResourceNames |-> \E i \in 1..n : Resources[i] = r]

\* close() is called on a controller that was never launched, whose launch
\* failed part way or succeeded; the page may have crashed since; throws
\* tells which of the close calls of Playwright will throw
CloseInit ==
    /\ call \in {c \in [pc : {"page"}, op : {"close"},
                        fields : {LaunchedFields(n) : n \in 0..3},
                        open : [ResourceNames -> BOOLEAN],
                        crashed : BOOLEAN,
                        throws : [ResourceNames -> BOOLEAN]] :
                   /\ c.open = c.fields
                   /\ c.crashed => c.fields["page"]}
    /\ NoSession

\* `if (this.<r>) await this.<r>.close()` for r = step, then next: the
\* resource is closed, or the call throws into the catch block of close,
\* which logs and returns
CloseResource(step, next) ==
    /\ call.pc = step /\ call.op = "close"
    /\ call' = IF ~call.fields[step]
                 THEN [call EXCEPT !.pc = next]
               ELSE IF call.throws[step]
                 THEN [call EXCEPT !.pc = "returned"]
               ELSE [call EXCEPT !.pc = next, !.open[step] = FALSE]
    /\ UNCHANGED <<config, cli, now, captureVars, detectorVars>>

\* after the three close calls: the fields are set to null and close returns
CloseReturns ==
    /\ call.pc = "reset" /\ call.op = "close"
    /\ call' = [call EXCEPT !.pc = "returned",
                            !.fields = [r \in ResourceNames |-> FALSE]]
    /\ UNCHANGED <<config, cli, now, captureVars, detectorVars>>

CloseNext ==
    \/ CloseResource("page", "context")
    \/ CloseResource("context", "browser")
    \/ CloseResource("browser", "reset")
    \/ CloseReturns

SpecClose == CloseInit /\ [][CloseNext]_vars

----------------------------------------------------------------------------
(* VisualAnalyzer.compareAnalyses on its own *)

compareAnalysesWithErrors(previous, current) ==
    LET sim == calculateTextSimilarity(previous.textContent, current.textContent)
    IN  [hasSignificantChange |-> hasSignificantChange(previous, current)
                                    \/ current.hasErrors,
         changePercentage |-> <<(sim[2] - sim[1]) * 100, sim[2]>>]

\* compareAnalyses(previous, current): hasSignificantChange, and
\* changePercentage = 100 - similarity as a fraction
compareAnalyses(previous, current) ==
    LET sim == calculateTextSimilarity(previous.textContent, current.textContent)
    IN  [hasSignificantChange |-> hasSignificantChange(previous, current),
         changePercentage |-> <<(sim[2] - sim[1]) * 100, sim[2]>>]

\* element counts of the snapshots compared: none, and counts 20 and 40 per
\* cent apart
ElementCounts == {0, 5, 6, 7}

\* body texts of the snapshots compared: none, and texts of ten characters
\* that are 30 and 40 per cent apart
BodyTexts ==
    {<<>>,
     <<97, 97, 97, 97, 97, 97, 97, 97, 97, 97>>,
     <<97, 97, 97, 97, 97, 97, 97, 98, 98, 98>>,
     <<97, 97, 97, 97, 97, 97, 98, 98, 98, 98>>}

\* the snapshots compareAnalyses is called with: any VisualAnalysis, the
\* fallback of analyzePage among them
Snapshots ==
    {[hasContent |-> Len(text) > 0, isBlank |-> blank, textContent |-> text,
      elementCount |-> elements, hasErrors |-> errors,
      errorMessages |-> IF errors THEN <<"error">> ELSE <<>>,
      loadingIndicators |-> indicators] :
        text \in BodyTexts, blank \in BOOLEAN, elements \in ElementCounts,
        errors \in BOOLEAN, indicators \in 0..1}
    \cup AnalysisResults

\* compareAnalyses is about to be called on two snapshots
AnalysesInit ==
    /\ call \in [pc : {"args"}, op : {"analyses"},
                 previous : Snapshots, current : Snapshots]
    /\ NoSession

\* compareAnalyses returns
CompareAnalyses ==
    /\ call.pc = "args" /\ call.op = "analyses"
    /\ call' = [pc |-> "compared", op |-> "analyses",
                previous |-> call.previous, current |-> call.current,
                result |-> compareAnalyses(call.previous, call.current)]
    /\ UNCHANGED <<config, cli, now, captureVars, detectorVars>>

SpecAnalyses == AnalysesInit /\ [][CompareAnalyses]_vars

----------------------------------------------------------------------------
(* testCommand: start the app, wait, capture, stop the app *)

\* what a chunk of the app's standard output holds: one of the words taken
\* for readiness, the port number only, or neither
OutputKinds == {"ready", "port", "other"}

\* the handler of stdout 'data': appStarted is set by a readiness word, or
\* by options.port when that option was given
appStartedAfter(c, kind) ==
    c.appStarted \/ kind = "ready" \/ (c.port /\ kind = "port")

\* testCommand has run up to the await of the wait promise: the app is
\* spawned, the handlers are attached and the wait timer is armed
TestInit ==
    /\ call \in [pc : {"waiting"}, op : {"test"}, port : BOOLEAN,
                 app : {"running"}, appStarted : {FALSE}, appError : {FALSE},
                 timeout : {"armed"}, captureStarted : {FALSE},
                 reported : {FALSE}, killed : {FALSE}, sigterm : {FALSE},
                 sigkill : {FALSE}, killTimer : {"none"}]
    /\ NoSession

\* the CLI process is gone
TestExited == call.pc \in {"exit0", "exit1"}

\* the catch block of testCommand: the failure is logged and process.exit(1)
\* ends the process there and then
CatchAndExit(c) == [c EXCEPT !.pc = "exit1", !.reported = TRUE]

\* the finally block of testCommand after the try block completed:
\* SIGTERM, which reaches the app and sets appProcess.killed only while the
\* app runs, and the 5 s timer for SIGKILL
FinallyBlock(c) ==
    IF c.killed THEN [c EXCEPT !.pc = "returned"]
    ELSE [c EXCEPT !.pc = "returned", !.sigterm = TRUE,
                   !.killed = (c.app = "running"), !.killTimer = "armed"]

\* the app writes to its standard output
AppStdout(kind) ==
    /\ call.op = "test" /\ ~TestExited /\ call.app = "running"
    /\ call' = [call EXCEPT !.appStarted = appStartedAfter(call, kind)]
    /\ UNCHANGED <<config, cli, now, captureVars, detectorVars>>

\* the app writes to its standard error
AppStderr ==
    /\ call.op = "test" /\ ~TestExited /\ call.app = "running"
    /\ call' = [call EXCEPT !.appError = TRUE]
    /\ UNCHANGED <<config, cli, now, captureVars, detectorVars>>

\* 'error' of the app process: the wait timer is cleared and the wait
\* promise rejected, which has no effect once it is settled
AppErrors ==
    /\ call.op = "test" /\ ~TestExited /\ call.app = "running"
    /\ LET c == [call EXCEPT !.app = "failed",
                             !.timeout = IF @ = "armed" THEN "cleared" ELSE @]
       IN  call' = IF call.pc = "waiting" THEN CatchAndExit(c) ELSE c
    /\ UNCHANGED <<config, cli, now, captureVars, detectorVars>>

\* 'exit' of the app process with a code: the wait timer is cleared, and the
\* wait promise rejected when the code is not 0
AppExits(code) ==
    /\ call.op = "test" /\ ~TestExited /\ call.app = "running"
    /\ LET c == [call EXCEPT !.app = "exited",
                             !.timeout = IF @ = "armed" THEN "cleared" ELSE @]
       IN  call' = IF call.pc = "waiting" /\ code # 0 THEN CatchAndExit(c)
                   ELSE c
    /\ UNCHANGED <<config, cli, now, captureVars, detectorVars>>

\* the wait timer fires: the wait promise is rejected when the app wrote
\* errors without having been seen to start, and resolved otherwise, and
\* testCommand goes on to captureSequence
WaitTimeoutFires ==
    /\ call.op = "test" /\ call.pc = "waiting" /\ call.timeout = "armed"
    /\ LET c == [call EXCEPT !.timeout = "fired"]
       IN  call' = IF ~call.appStarted /\ call.appError THEN CatchAndExit(c)
                   ELSE [c EXCEPT !.pc = "capturing",
                                  !.captureStarted = TRUE]
    /\ UNCHANGED <<config, cli, now, captureVars, detectorVars>>

\* captureSequence resolves, and testCommand logs the result and runs its
\* finally block, or rejects into the catch block
CaptureSettles(ok) ==
    /\ call.op = "test" /\ call.pc = "capturing"
    /\ call' = IF ok THEN FinallyBlock(call) ELSE CatchAndExit(call)
    /\ UNCHANGED <<config, cli, now, captureVars, detectorVars>>

\* the 5 s timer of the finally block fires
KillTimerFires ==
    /\ call.op = "test" /\ call.pc = "returned" /\ call.killTimer = "armed"
    /\ call' = [call EXCEPT !.killTimer = "fired",
                            !.sigkill = ~call.killed]
    /\ UNCHANGED <<config, cli, now, captureVars, detectorVars>>

\* nothing keeps the event loop alive any more (no timer, no child
\* process): the CLI process ends with code 0, wherever testCommand stands
LoopDrains ==
    /\ call.op = "test" /\ call.pc \in {"waiting", "returned"}
    /\ call.timeout # "armed" /\ call.killTimer # "armed"
    /\ call.app # "running"
    /\ call' = [call EXCEPT !.pc = "exit0"]
    /\ UNCHANGED <<config, cli, now, captureVars, detectorVars>>

TestNext ==
    \/ \E kind \in OutputKinds : AppStdout(kind)
    \/ AppStderr
    \/ AppErrors
    \/ \E code \in {0, 1} : AppExits(code)
    \/ WaitTimeoutFires
    \/ \E ok \in BOOLEAN : CaptureSettles(ok)
    \/ KillTimerFires
    \/ LoopDrains

SpecTest == TestInit /\ [][TestNext]_vars

\* timers fire; nothing is assumed of the app or of the capture
TestFairness == WF_vars(WaitTimeoutFires) /\ WF_vars(KillTimerFires)

SpecTestLive == TestInit /\ [][TestNext]_vars /\ TestFairness

----------------------------------------------------------------------------
(* Properties *)

Finished == main.pc \in {"done", "failed"}
HasManifest == manifest # NoManifest
Range(f) == {f[i] : i \in DOMAIN f}

\* C1: browser.close is invoked exactly once in every execution of
\* captureSequence: never twice, and once by the time captureSequence
\* resolves or rejects, whichever request faulted.
C1_CloseExactlyOnce ==
    /\ closeCalls <= 1
    /\ Finished => closeCalls = 1

\* captureSequence has rejected after a fault that came once sampling had begun
C1_Witness ==
    /\ main.pc = "failed"
    /\ Len(screenshots) > 0
    /\ closeCalls = 1

\* C2: the index in the filename prefix of every screenshot equals its
\* position in the screenshot sequence (so the indices are unique and
\* strictly increasing), whatever captures were in flight together.
C2_IndexIsPosition ==
    \A i \in 1..Len(screenshots) :
        FilenameIndex(screenshots[i].filename) = i - 1

\* C3: in every manifest the first screenshot has phase 'initial' and is
\* flagged as a key frame, whenever pageerror and crash events arrive.
C3_FirstIsInitial ==
    HasManifest =>
        /\ manifest.screenshots[1].phase = "initial"
        /\ manifest.screenshots[1].isKeyFrame

\* C4: in every manifest the last screenshot has phase 'final'.
C4_LastIsFinal ==
    HasManifest =>
        manifest.screenshots[Len(manifest.screenshots)].phase = "final"

\* C5: the key-frame list of the manifest is exactly the filenames of the
\* screenshots annotated isKeyFrame plus the filename of the last screenshot.
C5_KeyFramesAreFlagged ==
    HasManifest =>
        LET shots == manifest.screenshots
        IN Range(manifest.keyFrames) =
             {shots[i].filename : i \in {j \in 1..Len(shots) : shots[j].isKeyFrame}}
                \cup {shots[Len(shots)].filename}

\* C6: the key-frame list of the manifest contains the filename of the
\* sample captured with phase 'final'.
C6_FinalInKeyFrames ==
    HasManifest =>
        \A i \in 1..Len(manifest.screenshots) :
            manifest.screenshots[i].phase = "final"
                => manifest.screenshots[i].filename \in Range(manifest.keyFrames)

\* C7: the key-frame list of the manifest is sorted ascending and holds no
\* filename twice.
C7_KeyFramesSortedUnique ==
    HasManifest =>
        \A i, j \in 1..Len(manifest.keyFrames) :
            i < j => StrLess(manifest.keyFrames[i], manifest.keyFrames[j])

\* C8 as claimed: once the detector has reported completion before the
\* deadline, captureSequence has left the sampling phase.
C8_LeavesOnDetection ==
    loadingComplete /\ deadline = "pending" => main.pc # "race"

\* C8 as amended: captureSequence leaves the sampling phase for the final
\* sample only when the deadline timer has fired or both the detector has
\* reported and the interval sampler has returned, and it does not stay once
\* either holds.
C8_LeavesAfterBoth ==
    /\ [][main.pc = "race" /\ main'.pc = "shot"
            => \/ deadline' = "fired"
               \/ loadingComplete' /\ sampler'.pc = "done"]_vars
    /\ [](main.pc = "race"
            => /\ deadline # "fired"
               /\ ~(detect.state = "true" /\ sampler.pc = "done"))

\* the final sample has begun before the deadline, after the detector
\* reported and the sampler returned
C8_Witness ==
    /\ main.phase = "final"
    /\ deadline = "pending"
    /\ loadingComplete
    /\ sampler.pc = "done"

\* C9: CompositeStrategy.detect has resolved true as soon as one of its
\* strategies has resolved true.
C9_FirstTrueWins ==
    (\E s \in StrategyNames : strat[s] = "true") => detect.state = "true"

\* C10: the detector of createFromConfig resolves true no later than
\* config.duration after it was started.
C10_ResolvesByDuration ==
    /\ detect.state = "pending" => now - detect.start <= config.duration
    /\ detect.state \in {"true", "false"}
         => detect.state = "true" /\ detect.at - detect.start <= config.duration

\* C11: when the detector had not reported completion at the moment the
\* deadline timer fired, the manifest lists the loading-timeout issue and its
\* loadingDuration is the configured duration, whatever the detector does
\* while the final sample is captured.
C11_TimeoutReported ==
    HasManifest /\ undetected =>
        /\ manifest.issues.loadingTimeout
        /\ manifest.loadingDuration = config.duration

\* C12: once the deadline timer has fired the interval sampler begins no new
\* 'loading' sample; captures already in flight may still complete.
C12_NoNewSampleAfterDeadline ==
    [][deadline = "fired" => ~(sampler.pc # "shot" /\ sampler'.pc = "shot")]_vars

\* C13: when browser.screenshot fails for the initial sample, an interval
\* sample or the final sample, captureSequence runs its catch block (it
\* closes the browser and rethrows) and never returns a manifest.
C13_ScreenshotFaultRejects ==
    /\ [][main.pc = "shot" /\ main'.pc # "shot" /\ screenshots' = screenshots
            => main'.pc = "closing" /\ main'.fault /\ closeCalls' = closeCalls + 1]_vars
    /\ [](sampler.pc = "failed"
            => main.pc \in {"closing", "failed"} /\ main.fault /\ closeCalls = 1)

\* C14: a session that ends in a fault has persisted no manifest: when
\* captureSequence has rejected, saveManifest was never called or was itself
\* the request that failed.
C14_NoManifestOnFault ==
    main.pc = "failed" => ~manifestSaved

\* captureSequence has rejected because saveManifest failed
C14_Witness ==
    /\ main.pc = "failed"
    /\ HasManifest
    /\ ~manifestSaved

\* the screenshot record the handler of page event e is to append
IsErrorRecord(rec, e) ==
    /\ rec.phase = "loading"
    /\ rec.hasErrors
    /\ rec.isKeyFrame
    /\ e.type \in {"js-error", "crash"}
    /\ rec.errorMessages = <<e.type \o ": " \o e.message>>

\* C15: every pageerror or crash event whose error screenshot succeeds appends
\* exactly one screenshot with phase 'loading', hasErrors, the message
\* '<type>: <message>' and isKeyFrame; the manifest holds every such
\* screenshot appended before it was generated.
C15_ErrorSampleAppended ==
    /\ [][Len(errs') < Len(errs) /\ faults' = faults /\ pageOpen
            => \E k \in 1..Len(errs) :
                 /\ Len(screenshots') = Len(screenshots) + 1
                 /\ SubSeq(screenshots', 1, Len(screenshots)) = screenshots
                 /\ IsErrorRecord(screenshots'[Len(screenshots')], errs[k])]_vars
    /\ [][manifest = NoManifest /\ manifest' # NoManifest
            => manifest'.screenshots = screenshots]_vars

\* the manifest of a page that threw holds a 'js-error: ..' key frame
C15_Witness ==
    /\ HasManifest
    /\ \E i \in 1..Len(manifest.screenshots) :
         IsErrorRecord(manifest.screenshots[i],
                       [type |-> "js-error", message |-> "x is not defined"])

C17_InitialBeforeOthers ==
    errs # <<>> \/ sampler.pc = "shot" =>
        /\ Len(screenshots) >= 1
        /\ screenshots[1].phase = "initial"
        /\ FilenameIndex(screenshots[1].filename) = 0

\* the session's configured full-page flag, false when it is not configured
ConfigFullPage(cfg) == IF "fullPage" \in DOMAIN cfg THEN cfg.fullPage ELSE FALSE

\* C18: every screenshot request of a session (initial, interval, final and
\* error samples) carries fullPage equal to the configured flag, and false
\* when the flag is not configured.
C18_FullPageAsConfigured ==
    \A q \in PendingShots : q.fullPage = ConfigFullPage(config)

\* the snapshot analyzePage returned for an analysed screenshot
AnalysisOf(shot) ==
    CHOOSE a \in AnalysisResults :
        /\ a.isBlank = shot.blankScreen
        /\ a.hasErrors = shot.hasErrors
        /\ a.errorMessages = shot.errorMessages

\* no two consecutive snapshots of the sequence compare as significant
StaticPage(shots) ==
    \A i \in 1..(Len(shots) - 1) :
        ~hasSignificantChange(AnalysisOf(shots[i]), AnalysisOf(shots[i + 1]))

\* C19: when no page error or crash occurs and every pair of consecutive
\* snapshots compares as not significant, only the first screenshot is
\* annotated isKeyFrame and the key-frame list has exactly two entries, the
\* first and the last screenshot.
C19_StaticPageTwoKeyFrames ==
    HasManifest /\ errCount = 0 /\ StaticPage(manifest.screenshots) =>
        LET shots == manifest.screenshots
        IN /\ \A i \in 1..Len(shots) : shots[i].isKeyFrame <=> i = 1
           /\ manifest.keyFrames = <<shots[1].filename, shots[Len(shots)].filename>>

\* the manifest of a static page with an intermediate sample
C19_Witness ==
    /\ HasManifest
    /\ errCount = 0
    /\ StaticPage(manifest.screenshots)
    /\ Len(manifest.screenshots) >= 3
    /\ manifest.screenshots[2].phase = "loading"

IsPositive(v) == v.kind = "num" /\ v.val > 0

\* C20: a capture session only runs with interval > 0, duration > 0 and
\* viewport width and height > 0: once captureSequence has called
\* browser.launch, all four are positive numbers.
C20_OnlyValidConfigRuns ==
    main.pc # "idle" =>
        /\ IsPositive(config.duration)
        /\ IsPositive(config.interval)
        /\ IsPositive(config.viewport.width)
        /\ IsPositive(config.viewport.height)

\* C21: of two screenshots of a session the one appended first has the
\* lexicographically smaller filename, whatever the length of the session and
\* whether the samples are regular or error samples.
C21_NameOrderIsAppendOrder ==
    call.pc = "named" => StrLess(call.names[1], call.names[2])

\* the two images of the call differ in width or height
SizesDiffer ==
    \/ call.baseline.width # call.current.width
    \/ call.baseline.height # call.current.height

\* C22: compareScreenshots on two images whose width or height differ
\* returns isMatch = false and diffPercentage = 100 whatever the thresholds
\* and the pixels, and writes no diff image.
C22_SizeMismatchIsFullDiff ==
    call.pc = "compared" /\ call.op = "compare" /\ SizesDiffer =>
        /\ call.result.isMatch = FALSE
        /\ call.result.diffPercentage = Percent(100)
        /\ ~call.result.diffImage

C22_Witness ==
    /\ call.pc = "compared"
    /\ SizesDiffer
    /\ call.options.threshold = Val(100)
    /\ call.outputPath
    /\ call.baseline.data[1] = call.current.data[1]

\* the threshold the options ask for
ConfiguredThreshold(options) ==
    IF options.threshold = Undefined THEN DefaultThreshold
    ELSE Percent(options.threshold.val)

\* the pixel threshold the options ask for
ConfiguredPixelThreshold(options) ==
    IF options.pixelThreshold = Undefined THEN DefaultPixelThreshold
    ELSE options.pixelThreshold.val

\* C23: on images of equal dimensions a pixel counts as different exactly
\* when its largest channel difference exceeds the configured pixelThreshold
\* (0..255, 0 included), and isMatch is true exactly when diffPercentage is
\* at most the configured threshold (>= 0, 0 included).
C23_ConfiguredThresholdsApply ==
    call.pc = "compared" /\ call.op = "compare" /\ ~SizesDiffer =>
        /\ call.result.diffPixels =
             diffPixels(call.baseline, call.current,
                        ConfiguredPixelThreshold(call.options))
        /\ call.result.isMatch <=>
             LeqFraction(call.result.diffPercentage,
                         ConfiguredThreshold(call.options))

\* C25: compareScreenshots of an image with itself returns diffPixels = 0,
\* diffPercentage = 0 and isMatch = true, and writes no diff image.
C25_SelfCompareMatches ==
    call.pc = "compared" /\ call.op = "compare" /\ call.baseline = call.current =>
        /\ call.result.diffPixels = 0
        /\ call.result.diffPercentage[1] = 0
        /\ call.result.isMatch
        /\ ~call.result.diffImage

C25_Witness ==
    /\ call.pc = "compared"
    /\ call.baseline = call.current
    /\ call.baseline.width = 2
    /\ call.outputPath
    /\ call.options.pixelThreshold = Val(0)
    /\ call.options.threshold = Val(0)

\* the baseline directory and both manifests of the call exist
BaselineReadable ==
    /\ call.args.baselineExists
    /\ call.args.currentManifest
    /\ call.args.baselineManifest

\* C24: when the baseline directory and both manifests exist,
\* compareWithBaseline returns one entry per key frame of the current
\* manifest, in manifest order; a key frame whose file is absent from the
\* baseline directory yields isMatch = false with diffPercentage = 100, and
\* every key frame present in both directories is still compared.
C24_OneEntryPerKeyFrame ==
    call.pc = "compared" /\ call.op = "baseline" /\ BaselineReadable =>
        /\ call.result.kind = "returned"
        /\ Len(call.result.comparisons) = Len(call.args.keyFrames)
        /\ \A i \in DOMAIN call.args.keyFrames :
             LET keyFrame == call.args.keyFrames[i]
                 entry == call.result.comparisons[i]
             IN  /\ entry.screenshot = keyFrame
                 /\ call.args.baselineDir[keyFrame] = Absent =>
                      /\ entry.result.isMatch = FALSE
                      /\ entry.result.diffPercentage = Percent(100)
                 /\ /\ call.args.baselineDir[keyFrame] # Absent
                    /\ call.args.currentDir[keyFrame] # Absent
                    => entry.result =
                         compareScreenshots(
                             ScreenshotComparator([threshold |-> Undefined,
                                                   pixelThreshold |-> Undefined]),
                             call.args.currentDir[keyFrame],
                             call.args.baselineDir[keyFrame], TRUE)

C24_Witness ==
    /\ call.pc = "compared" /\ call.op = "baseline" /\ BaselineReadable
    /\ Len(call.args.keyFrames) = 2
    /\ call.args.keyFrames[1] # call.args.keyFrames[2]
    /\ call.args.baselineDir[call.args.keyFrames[1]] = Absent
    /\ call.args.baselineDir[call.args.keyFrames[2]] # Absent
    /\ call.args.currentDir[call.args.keyFrames[2]]
         = call.args.baselineDir[call.args.keyFrames[2]]
    /\ call.result.comparisons[2].result.isMatch

\* two fractions have the same value
SameFraction(a, b) == a[1] * b[2] = b[1] * a[2]

\* C26: calculateTextSimilarity gives the same value for (A, B) and (B, A),
\* 100 for (A, A), and 0 when exactly one of A and B is empty.
C26_SimilaritySymmetric ==
    call.pc = "similar" =>
        /\ SameFraction(call.forward, call.backward)
        /\ SameFraction(call.self, <<1, 1>>)
        /\ (call.text1 = <<>>) # (call.text2 = <<>>) => call.forward[1] = 0

C26_Witness ==
    /\ call.pc = "similar"
    /\ Len(call.text1) = 2 /\ Len(call.text2) = 3
    /\ call.forward[1] = 1
    /\ call.backward[1] = 1

\* C27: no detection strategy rejects: NetworkIdleStrategy, DOMReadyStrategy
\* and ElementPresentStrategy resolve false when their wait throws or times
\* out, TimeoutStrategy resolves true, and CompositeStrategy.detect over
\* them resolves to a boolean.
C27_StrategiesNeverReject ==
    call.pc = "detected" =>
        /\ \A s \in DOMAIN call.results :
             /\ call.results[s] \in {"true", "false"}
             /\ call.waits[s] \in {"threw", "timedOut"} => call.results[s] = "false"
             /\ s = "timeout" => call.results[s] = "true"
        /\ call.composite \in {"true", "false"}

C27_Witness ==
    /\ call.pc = "detected"
    /\ DOMAIN call.waits = LoadingStrategies
    /\ call.waits["networkIdle"] = "timedOut"
    /\ call.waits["domReady"] = "threw"
    /\ call.waits["elementPresent"] = "timedOut"
    /\ call.composite = "true"

\* C28: a regular sample after the first is annotated isKeyFrame exactly
\* when compareAnalyses(snapshot of the regular sample analysed just before
\* it, its own snapshot) reports a significant change, however error samples
\* are captured while it is in flight.
C28_KeyFrameIffSignificantChange ==
    [][/\ Len(screenshots') = Len(screenshots) + 1
       /\ Len(errs') = Len(errs)
       /\ previousAnalysis # NoAnalysis
       => (screenshots'[Len(screenshots')].isKeyFrame
             <=> hasSignificantChange(previousAnalysis, previousAnalysis'))]_vars

\* C29: the interval sampler never begins a 'loading' sample in a state
\* where loadingComplete is true: once the detector has reported completion,
\* captureAtIntervals takes no further sample.
C29_NoSampleAfterCompletion ==
    [][sampler.pc # "shot" /\ sampler'.pc = "shot" => ~loadingComplete]_vars

\* the detector reported during the first sleep of the sampler, which woke
\* up and returned without a sample
C29_Witness ==
    /\ loadingComplete
    /\ sampler.pc = "done"
    /\ Len(screenshots) = 1
    /\ errCount = 0
    /\ main.pc = "shot"

\* C30 as stated: once the initial sample has completed and the race has
\* begun, captureSequence eventually begins the final sample.
C30_FinalSampleBegins ==
    main.pc = "race" ~> main.phase = "final"

\* C30: once the initial sample has completed and the race has begun,
\* captureSequence eventually begins the final sample, even if the detector
\* never resolves and the sample of the interval sampler never completes,
\* unless a sample of the interval sampler fails before the deadline and
\* captureSequence rejects.
C30_FinalSampleBeginsOrFault ==
    main.pc = "race" ~> (main.phase = "final" \/ main.fault)

\* the deadline has fired and the final sample has begun while the detector
\* is unresolved and a sample of the interval sampler is in flight
C30_Witness ==
    /\ deadline = "fired"
    /\ main.phase = "final"
    /\ ~main.fault
    /\ detect.state = "pending"
    /\ sampler.pc = "shot"

\* browser.close of captureSequence has returned
CloseReturned == closeCalls > 0 /\ main.pc \in {"done", "failed"}

\* C31: once captureSequence has closed the browser, on the normal or the
\* failure path, no screenshot is requested any more, by the interval sampler
\* or by an error handler, and no sample is analysed or measured.
C31_NoRequestAfterClose ==
    [][CloseReturned =>
         /\ ~(sampler.pc # "shot" /\ sampler'.pc = "shot")
         /\ ~(sampler.pc # "metrics" /\ sampler'.pc = "metrics")
         /\ Len(errs') <= Len(errs)
         /\ Len(screenshots') = Len(screenshots)]_vars

\* C32: the manifest captureSequence returns reads as the manifest that was
\* passed to saveManifest and does not change afterwards: samples completing
\* after its generation alter neither its screenshots nor its keyFrames.
C32_ManifestUnchanged ==
    HasManifest =>
        /\ ManifestObject.screenshots = manifest.screenshots
        /\ ManifestObject.keyFrames = manifest.keyFrames

\* C33: when collectMetrics rejects for a sample, the screenshot of the
\* sample stays in the sequence, no performance entry is added, and neither
\* the sampler nor captureSequence rejects.
C33_MetricsFaultSwallowed ==
    /\ [][main.pc = "metrics" /\ main'.pc # "metrics" /\ faults' > faults
            => /\ screenshots' = screenshots
               /\ performanceMetrics' = performanceMetrics
               /\ ~main'.fault
               /\ main'.pc \in {"race", "shot", "save"}]_vars
    /\ [][sampler.pc = "metrics" /\ sampler'.pc # "metrics" /\ faults' > faults
            => /\ screenshots' = screenshots
               /\ performanceMetrics' = performanceMetrics
               /\ sampler'.pc \in {"sleep", "done"}
               /\ main'.fault = main.fault]_vars

\* a session whose only fault was a rejected collectMetrics has returned its
\* manifest, one performance entry short
C33_Witness ==
    /\ main.pc = "done" /\ sampler.pc = "done"
    /\ ~pageOpen
    /\ faults = 1 /\ errCount = 0
    /\ Len(manifest.screenshots) = Len(screenshots)
    /\ Len(performanceMetrics) = Len(screenshots) - 1

\* C34: after close() has returned, the page, the context and the browser
\* that were launched are closed and the controller is not launched any more
\* (getPage throws), also when closing the page or the context throws; close
\* never throws.
C34_CloseReleasesAll ==
    call.pc = "returned" /\ call.op = "close" =>
        /\ \A r \in ResourceNames : ~call.open[r]
        /\ ~call.fields["page"]

\* the fraction a exceeds n
FractionExceeds(a, n) == a[1] > n * a[2]

\* C35: compareAnalyses reports a significant change exactly when isBlank
\* differs, or the element count changed by more than 20 per cent of the
\* previous count (a previous count of 0 counting as 100 per cent), or the
\* loading indicators went from none to some or from some to none, or
\* hasErrors went from false to true, or 100 minus the text similarity
\* exceeds 30.
C35_SignificantChangeRule ==
    call.pc = "compared" /\ call.op = "analyses" =>
        LET previous == call.previous
            current == call.current
            similarity == calculateTextSimilarity(previous.textContent,
                                                  current.textContent)
        IN  call.result.hasSignificantChange <=>
              \/ previous.isBlank # current.isBlank
              \/ previous.elementCount = 0
              \/ /\ previous.elementCount # 0
                 /\ Abs(current.elementCount - previous.elementCount) * 100
                      > 20 * previous.elementCount
              \/ (previous.loadingIndicators = 0) # (current.loadingIndicators = 0)
              \/ ~previous.hasErrors /\ current.hasErrors
              \/ FractionExceeds(<<100 * (similarity[2] - similarity[1]),
                                   similarity[2]>>, 30)

\* snapshots exactly 20 per cent apart in elements and 30 per cent apart in
\* text, and no other difference: no significant change
C35_Witness ==
    /\ call.pc = "compared" /\ call.op = "analyses"
    /\ call.previous.elementCount = 5 /\ call.current.elementCount = 6
    /\ call.result.changePercentage = <<300, 10>>
    /\ ~call.result.hasSignificantChange

\* C36 as stated: compareAnalyses(a, a) reports no significant change and
\* changePercentage 0 for every snapshot a, those with elementCount 0
\* included.
C36_SelfCompareUnchanged ==
    call.pc = "compared" /\ call.op = "analyses" /\ call.previous = call.current =>
        /\ ~call.result.hasSignificantChange
        /\ call.result.changePercentage[1] = 0

\* C36: compareAnalyses(a, a) reports changePercentage 0, and no significant
\* change exactly when a.elementCount > 0; a snapshot without elements, such
\* as the fallback of analyzePage, counts as changed against itself.
C36_SelfCompareUnchangedIfElements ==
    call.pc = "compared" /\ call.op = "analyses" /\ call.previous = call.current =>
        /\ call.result.changePercentage[1] = 0
        /\ call.result.hasSignificantChange <=> call.previous.elementCount = 0

C36_Witness ==
    /\ call.pc = "compared" /\ call.op = "analyses"
    /\ call.previous = call.current
    /\ call.previous.elementCount = 5
    /\ call.previous.hasErrors
    /\ call.previous.loadingIndicators = 1
    /\ Len(call.previous.textContent) = 10
    /\ ~call.result.hasSignificantChange

\* C37: in compareWithBaseline the image of the baseline directory plays the
\* baseline role: on a dimension mismatch diffPixels and totalPixels are the
\* pixel count of the baseline image, and the matching pixels of a diff image
\* carry the colour of the baseline image at alpha 128.
C37_BaselineRole ==
    call.pc = "compared" /\ call.op = "baseline" /\ BaselineReadable =>
        \A i \in DOMAIN call.args.keyFrames :
            LET baseline == call.args.baselineDir[call.args.keyFrames[i]]
                current == call.args.currentDir[call.args.keyFrames[i]]
                result == call.result.comparisons[i].result
                diff == call.diffFiles[i]
            IN  baseline # Absent /\ current # Absent =>
                  /\ baseline.width # current.width =>
                       /\ result.diffPixels = baseline.width * baseline.height
                       /\ result.totalPixels = baseline.width * baseline.height
                  /\ diff # Absent =>
                       \A k \in DOMAIN diff.data :
                           diff.data[k] # <<255, 0, 0, 255>> =>
                               diff.data[k] = <<baseline.data[k][1], baseline.data[k][2],
                                                baseline.data[k][3], 128>>

\* C38: after createBaseline(captureDir, baselineDir) has succeeded,
\* compareWithBaseline(captureDir, baselineDir) returns baselineExists, one
\* matching entry per key frame of the capture, overallMatch and
\* maxDiffPercentage 0.
C38_RoundTripMatches ==
    call.pc = "compared" /\ call.op = "roundtrip" /\ call.args.pc = "created" =>
        /\ call.result.kind = "returned"
        /\ call.result.baselineExists
        /\ Len(call.result.comparisons) = Len(call.args.keyFrames)
        /\ \A i \in DOMAIN call.args.keyFrames :
             /\ call.result.comparisons[i].screenshot = call.args.keyFrames[i]
             /\ call.result.comparisons[i].result.isMatch
             /\ call.result.comparisons[i].result.diffPixels = 0
        /\ call.result.overallMatch
        /\ call.result.maxDiffPercentage[1] = 0

\* two key frames with different images were copied and compared
C38_Witness ==
    /\ call.pc = "compared" /\ call.op = "roundtrip" /\ call.args.pc = "created"
    /\ Len(call.args.keyFrames) = 2
    /\ call.args.keyFrames[1] # call.args.keyFrames[2]
    /\ call.args.currentDir[call.args.keyFrames[1]]
         # call.args.currentDir[call.args.keyFrames[2]]
    /\ call.args.baselineDir = call.args.currentDir
    /\ call.result.overallMatch

\* C39: testCommand sends SIGTERM to the app it started before the CLI
\* process exits, on the success path and on every failure path.
C39_SigtermBeforeExit ==
    call.op = "test" /\ TestExited => call.sigterm

\* C40: after starting the app, testCommand always eventually starts the
\* capture or reports a failure and exits non-zero, whatever the app does
\* during the wait: stay alive, write to stderr, error, exit with a code
\* other than 0, or exit with code 0.
C40_CaptureOrFailure ==
    <>(call.op = "test"
         /\ (call.captureStarted \/ (call.reported /\ call.pc = "exit1")))

====
